---------------------------- MODULE Spec2Model ----------------------------
(***************************************************************************)
(* PIX reconciliation of auditoria_unificada_completa.py.                  *)
(*                                                                         *)
(* The state machine follows audit_pix_transactions loop iteration by loop *)
(* iteration: one step per bank probe of the first pass, one step per bank *)
(* group of the second pass, one step per receivables group of the third   *)
(* pass and one step for the fourth pass.  A run is entered either through *)
(* executar_auditoria (the two ledgers are loaded from files, the          *)
(* tolerances are the defaults) or by calling audit_pix_transactions with  *)
(* ledgers and tolerances of the caller's choice.                          *)
(*                                                                         *)
(* Sequences are 1-based here and 0-based in the source; amounts are whole *)
(* currency units (exactly representable floats), so a tolerance t of the  *)
(* model stands for every float tolerance in [t, t+1): the default 0.01 is *)
(* 0.  Status texts are written without accents.                           *)
(*                                                                         *)
(* The module also holds the tolerance predicates of PixAuditor            *)
(* (audit_pix_unificado.py, SpecPixAuditor) and the field audit of         *)
(* DataAuditor (modules/auditor.py, SpecDataAuditor); SpecChamadas is the  *)
(* reconciliation called again on the lists of a call that returned.       *)
(* SpecCartao is the loop of audit_cartao_transactions over the card       *)
(* transactions, in its two versions (audit_cartao.py, which keeps         *)
(* summary_stats, and auditoria_unificada_completa.py, which records the   *)
(* order number of the generated row); the loading of the two files is not *)
(* modelled.  SpecFindMatches is PixAuditor.find_matches.                  *)
(***************************************************************************)
EXTENDS Integers, Sequences, FiniteSets, TLC

VARIABLES
    origem,                     \* which entry point started the run
    arquivo_banco,              \* content of the bank JSON file (executar_auditoria)
    arquivo_receb,              \* content of the receivables file (executar_auditoria)
    banco_transactions,         \* the bank ledger handed to audit_pix_transactions
    recebimentos_transactions,  \* the receivables ledger
    tolerancia_valor,
    tolerancia_dias,
    pc,                         \* position in the run
    results,
    usados_banco,
    usados_receb,
    idx_banco,                  \* cursor of the first pass
    grupos_banco,               \* dict of the second pass, in insertion order
    grupos_recebimentos,        \* dict of the third pass, in insertion order
    idx_grupo,                  \* cursor of the second and third pass
    \* PixAuditor (audit_pix_unificado.py)
    tolerance_days,
    tolerance_value,
    chamada,                    \* the method called and its arguments
    retorno,                    \* what the call returned or raised
    \* DataAuditor (modules/auditor.py)
    tolerance_percentage,
    csv_file,                   \* the content of the CSV file
    generated_file,             \* the content of the generated Excel file
    field_mappings,             \* the dict, as its items in insertion order
    key_field,
    valores,                    \* the arguments of a call of compare_numeric_values
    csv_df,
    generated_df,
    normalized_key_field,
    all_results,
    matching_records,
    mismatched_records,
    linha,                      \* cursor of the loop over the CSV rows
    summary,
    pc_auditor,                 \* position in the call
    \* card audit (audit_cartao.py, auditoria_unificada_completa.py)
    modulo,                     \* the module whose audit_cartao_transactions runs
    cartao_args,                \* the frames cartao_df and generated_df of the call
    cartao_results,             \* the list results of the call
    summary_stats,
    idx_cartao,                 \* cursor of the loop over cartao_df
    pc_cartao,                  \* position in the call
    \* PixAuditor.find_matches (audit_pix_unificado.py)
    find_args,                  \* the three lists handed to find_matches
    matches,
    pc_find                     \* position in the call

varsReconciliacao ==
    <<origem, arquivo_banco, arquivo_receb, banco_transactions,
      recebimentos_transactions, tolerancia_valor, tolerancia_dias, pc,
      results, usados_banco, usados_receb, idx_banco, grupos_banco,
      grupos_recebimentos, idx_grupo>>

varsPixAuditor == <<tolerance_days, tolerance_value, chamada, retorno>>

varsDataAuditor ==
    <<tolerance_percentage, csv_file, generated_file, field_mappings, key_field,
      valores, csv_df, generated_df, normalized_key_field, all_results,
      matching_records, mismatched_records, linha, summary, pc_auditor>>

varsCartao ==
    <<modulo, cartao_args, cartao_results, summary_stats, idx_cartao, pc_cartao>>

varsFindMatches == <<find_args, matches, pc_find>>

vars ==
    <<varsReconciliacao, varsPixAuditor, varsDataAuditor, varsCartao,
      varsFindMatches>>

-----------------------------------------------------------------------------
(* Bounds of the model *)

MaxBanco == 2
MaxReceb == 2
MaxTotal == 5

(* Program constants *)

TOLERANCIA_DIAS_PADRAO == 2
TOLERANCIA_VALOR_PADRAO == 0
TOLERANCIA_ESTENDIDA == 15

-----------------------------------------------------------------------------
(* Input domains *)

Datas == {"01/06/2025", "14/06/2025", "17/06/2025", "sem data"}
Valores == {50, 70, 120}
Remetentes == {"A", "B"}

PixBanco == [data : Datas, valor : Valores, remetente : Remetentes]
PixReceb == [data : Datas, valor : Valores]

\* the entries of the longer ledgers: one sender, two dates three days apart
DatasProximas == {"14/06/2025", "17/06/2025"}
PixBancoProximo == [data : DatasProximas, valor : Valores, remetente : {"A"}]
PixRecebProximo == [data : DatasProximas, valor : Valores]

SeqAte(S, n) == UNION {[1..k -> S] : k \in 0..n}

\* the pairs of ledgers a run is given: short ledgers over every kind of
\* entry, and longer ledgers over the entries above
Entradas ==
    (SeqAte(PixBanco, MaxBanco) \X SeqAte(PixReceb, MaxReceb))
        \cup UNION {[1..k -> PixBancoProximo] \X SeqAte(PixRecebProximo, MaxTotal - k)
                        : k \in 0..MaxTotal}

\* (tolerancia_valor, tolerancia_dias) pairs a direct caller passes
Tolerancias == {<<20, 3>>, <<-1, 2>>, <<0, -1>>}

-----------------------------------------------------------------------------
(* Dates *)

Falha == -1

\* pd.to_datetime(s, format='%d/%m/%Y'): the day number, or Falha when it raises
ParseData(s) ==
    CASE s = "01/06/2025" -> 1
      [] s = "14/06/2025" -> 14
      [] s = "17/06/2025" -> 17
      [] OTHER -> Falha

Abs(x) == IF x < 0 THEN -x ELSE x

\* the try/except date comparison: TRUE when the scan does not `continue`
DataOK(data_a, data_b, dias) ==
    IF ParseData(data_a) # Falha /\ ParseData(data_b) # Falha
    THEN ~(Abs(ParseData(data_a) - ParseData(data_b)) > dias)
    ELSE ~(data_a # data_b)


-----------------------------------------------------------------------------
(* Result records.  bancos and recebs are the 1-based ledger positions of   *)
(* the entries the record was built from; obs tells the observacao texts     *)
(* apart.                                                                    *)

ENCONTRADA == "CORRESPONDENCIA ENCONTRADA"
ENCONTRADA_ESTENDIDA == "CORRESPONDENCIA ENCONTRADA (TOLERANCIA ESTENDIDA)"
ENCONTRADA_VALOR_SOMADO == "CORRESPONDENCIA ENCONTRADA (VALOR SOMADO)"
ENCONTRADA_RECEBIMENTOS_SOMADOS == "CORRESPONDENCIA ENCONTRADA (RECEBIMENTOS SOMADOS)"
SEM_CORRESPONDENCIA == "SEM CORRESPONDENCIA"

Registro(status, obs, bancos, recebs) ==
    [status |-> status, obs |-> obs, bancos |-> bancos, recebs |-> recebs]

Nenhum == 0     \* match_idx = None

RECURSIVE SomaValores(_, _, _)
\* sum(tx.valor for _, tx in transacoes), from position k of the index list
SomaValores(ledger, indices, k) ==
    IF k > Len(indices) THEN 0
    ELSE ledger[indices[k]].valor + SomaValores(ledger, indices, k + 1)

SeqParaConj(s) == {s[k] : k \in DOMAIN s}

\* the numbers of S in ascending order
Ordenado(S) ==
    [k \in 1..Cardinality(S) |->
        CHOOSE x \in S : Cardinality({y \in S : y < x}) = k - 1]

Min(S) == CHOOSE x \in S : \A y \in S : x <= y
Max(S) == CHOOSE x \in S : \A y \in S : x >= y

-----------------------------------------------------------------------------
(* First pass: individual matches *)

RECURSIVE VarreDireta(_, _)
\* the scan of the first attempt, from receivable idx_rec on: first fit
VarreDireta(banco_tx, idx_rec) ==
    IF idx_rec > Len(recebimentos_transactions) THEN Nenhum
    ELSE LET rec_tx == recebimentos_transactions[idx_rec] IN
         IF idx_rec \in usados_receb
         THEN VarreDireta(banco_tx, idx_rec + 1)
         ELSE IF ~DataOK(banco_tx.data, rec_tx.data, tolerancia_dias)
         THEN VarreDireta(banco_tx, idx_rec + 1)
         ELSE IF Abs(banco_tx.valor - rec_tx.valor) <= tolerancia_valor
         THEN idx_rec
         ELSE VarreDireta(banco_tx, idx_rec + 1)

\* the first attempt taking the last fit instead of the first
BuscaDiretaUltimo(banco_tx) ==
    LET c == {idx_rec \in (DOMAIN recebimentos_transactions) \ usados_receb :
                /\ DataOK(banco_tx.data, recebimentos_transactions[idx_rec].data,
                          tolerancia_dias)
                /\ Abs(banco_tx.valor - recebimentos_transactions[idx_rec].valor)
                        <= tolerancia_valor}
    IN  IF c = {} THEN Nenhum ELSE Max(c)

BuscaDireta(banco_tx) == VarreDireta(banco_tx, 1)

RECURSIVE VarreEstendida(_, _)
\* the scan of the second attempt: 15 days, amounts exactly equal
VarreEstendida(banco_tx, idx_rec) ==
    IF idx_rec > Len(recebimentos_transactions) THEN Nenhum
    ELSE LET rec_tx == recebimentos_transactions[idx_rec] IN
         IF idx_rec \in usados_receb
         THEN VarreEstendida(banco_tx, idx_rec + 1)
         ELSE IF ~DataOK(banco_tx.data, rec_tx.data, TOLERANCIA_ESTENDIDA)
         THEN VarreEstendida(banco_tx, idx_rec + 1)
         ELSE IF banco_tx.valor = rec_tx.valor
         THEN idx_rec
         ELSE VarreEstendida(banco_tx, idx_rec + 1)

BuscaEstendida(banco_tx) == VarreEstendida(banco_tx, 1)

\* the status without its test of tolerancia_dias_usada
StatusSempreEstendido(tolerancia_dias_usada) == ENCONTRADA_ESTENDIDA

\* status of an individual match, from the tolerance that found it
StatusIndividual(tolerancia_dias_usada) ==
    IF tolerancia_dias_usada > tolerancia_dias
    THEN ENCONTRADA_ESTENDIDA
    ELSE ENCONTRADA

\* one iteration of the first loop
PrimeiraPassada ==
    /\ pc = "passada1"
    /\ idx_banco <= Len(banco_transactions)
    /\ LET banco_tx == banco_transactions[idx_banco]
           direta == BuscaDireta(banco_tx)
           match_idx == IF direta # Nenhum THEN direta
                        ELSE BuscaEstendida(banco_tx)
           tolerancia_dias_usada == IF direta # Nenhum THEN tolerancia_dias
                                    ELSE TOLERANCIA_ESTENDIDA
       IN  IF idx_banco \notin usados_banco /\ match_idx # Nenhum
           THEN /\ usados_receb' = usados_receb \cup {match_idx}
                /\ usados_banco' = usados_banco \cup {idx_banco}
                /\ results' = Append(results,
                        Registro(StatusIndividual(tolerancia_dias_usada),
                                 "individual", <<idx_banco>>, <<match_idx>>))
           ELSE UNCHANGED <<usados_receb, usados_banco, results>>
    /\ idx_banco' = idx_banco + 1
    /\ UNCHANGED <<origem, arquivo_banco, arquivo_receb, banco_transactions,
                   recebimentos_transactions, tolerancia_valor, tolerancia_dias,
                   pc, grupos_banco, grupos_recebimentos, idx_grupo>>

-----------------------------------------------------------------------------
(* Second pass: unused bank entries of one sender and date, summed *)

\* the key without the date
ChaveSoRemetente(idx) == <<banco_transactions[idx].remetente>>

Chave(idx) == <<banco_transactions[idx].remetente, banco_transactions[idx].data>>

RECURSIVE AgrupaBanco(_, _)
\* the loop that fills grupos_banco, from bank position idx on; a group is
\* the list of its positions, the groups are in insertion order
AgrupaBanco(idx, grupos) ==
    IF idx > Len(banco_transactions) THEN grupos
    ELSE IF idx \in usados_banco THEN AgrupaBanco(idx + 1, grupos)
    ELSE LET pos == {g \in DOMAIN grupos : Chave(grupos[g][1]) = Chave(idx)} IN
         IF pos = {}
         THEN AgrupaBanco(idx + 1, Append(grupos, <<idx>>))
         ELSE LET g == CHOOSE g \in pos : TRUE IN
              AgrupaBanco(idx + 1, [grupos EXCEPT ![g] = Append(@, idx)])

GruposBanco == AgrupaBanco(1, <<>>)

RECURSIVE VarreSomaBanco(_, _, _)
\* the scan of a bank group's summed amount over the unused receivables
VarreSomaBanco(data, valor_total, idx_rec) ==
    IF idx_rec > Len(recebimentos_transactions) THEN Nenhum
    ELSE LET rec_tx == recebimentos_transactions[idx_rec] IN
         IF idx_rec \in usados_receb
         THEN VarreSomaBanco(data, valor_total, idx_rec + 1)
         ELSE IF ~DataOK(data, rec_tx.data, tolerancia_dias)
         THEN VarreSomaBanco(data, valor_total, idx_rec + 1)
         ELSE IF Abs(valor_total - rec_tx.valor) <= tolerancia_valor
         THEN idx_rec
         ELSE VarreSomaBanco(data, valor_total, idx_rec + 1)

\* the scan without its `if idx_rec in usados_receb: continue`
BuscaSomaBancoSemFiltro(data, valor_total) ==
    LET c == {idx_rec \in DOMAIN recebimentos_transactions :
                /\ DataOK(data, recebimentos_transactions[idx_rec].data,
                          tolerancia_dias)
                /\ Abs(valor_total - recebimentos_transactions[idx_rec].valor)
                        <= tolerancia_valor}
    IN  IF c = {} THEN Nenhum ELSE Min(c)

BuscaSomaBanco(data, valor_total) == VarreSomaBanco(data, valor_total, 1)

\* the SEM CORRESPONDENCIA records of a group that matched nothing
SemDoGrupoBanco(transacoes) ==
    [k \in 1..Len(transacoes) |->
        Registro(SEM_CORRESPONDENCIA, "banco sem individual ou somada",
                 <<transacoes[k]>>, <<>>)]

\* the loop that builds the groups, run when the first loop is over
FimPrimeiraPassada ==
    /\ pc = "passada1"
    /\ idx_banco > Len(banco_transactions)
    /\ grupos_banco' = GruposBanco
    /\ idx_grupo' = 1
    /\ pc' = "passada2"
    /\ UNCHANGED <<origem, arquivo_banco, arquivo_receb, banco_transactions,
                   recebimentos_transactions, tolerancia_valor, tolerancia_dias,
                   results, usados_banco, usados_receb, idx_banco,
                   grupos_recebimentos>>

\* the loop's iteration with the group's entries marked used when nothing matched
SegundaPassadaConsomeNaFalha ==
    /\ pc = "passada2"
    /\ idx_grupo <= Len(grupos_banco)
    /\ LET transacoes == grupos_banco[idx_grupo]
           data == banco_transactions[transacoes[1]].data
           valor_total == SomaValores(banco_transactions, transacoes, 1)
           match_idx == BuscaSomaBanco(data, valor_total)
       IN  IF Len(transacoes) = 1
           THEN UNCHANGED <<usados_receb, usados_banco, results>>
           ELSE IF match_idx # Nenhum
           THEN /\ usados_receb' = usados_receb \cup {match_idx}
                /\ usados_banco' = usados_banco \cup SeqParaConj(transacoes)
                /\ results' = Append(results,
                        Registro(ENCONTRADA_VALOR_SOMADO, "valor somado",
                                 transacoes, <<match_idx>>))
           ELSE /\ results' = results \o SemDoGrupoBanco(transacoes)
                /\ usados_banco' = usados_banco \cup SeqParaConj(transacoes)
                /\ UNCHANGED usados_receb
    /\ idx_grupo' = idx_grupo + 1
    /\ UNCHANGED <<origem, arquivo_banco, arquivo_receb, banco_transactions,
                   recebimentos_transactions, tolerancia_valor, tolerancia_dias,
                   pc, idx_banco, grupos_banco, grupos_recebimentos>>

\* one iteration of the loop over grupos_banco
SegundaPassada ==
    /\ pc = "passada2"
    /\ idx_grupo <= Len(grupos_banco)
    /\ LET transacoes == grupos_banco[idx_grupo]
           data == banco_transactions[transacoes[1]].data
           valor_total == SomaValores(banco_transactions, transacoes, 1)
           match_idx == BuscaSomaBanco(data, valor_total)
       IN  IF Len(transacoes) = 1
           THEN UNCHANGED <<usados_receb, usados_banco, results>>
           ELSE IF match_idx # Nenhum
           THEN /\ usados_receb' = usados_receb \cup {match_idx}
                /\ usados_banco' = usados_banco \cup SeqParaConj(transacoes)
                /\ results' = Append(results,
                        Registro(ENCONTRADA_VALOR_SOMADO, "valor somado",
                                 transacoes, <<match_idx>>))
           ELSE /\ results' = results \o SemDoGrupoBanco(transacoes)
                /\ UNCHANGED <<usados_receb, usados_banco>>
    /\ idx_grupo' = idx_grupo + 1
    /\ UNCHANGED <<origem, arquivo_banco, arquivo_receb, banco_transactions,
                   recebimentos_transactions, tolerancia_valor, tolerancia_dias,
                   pc, idx_banco, grupos_banco, grupos_recebimentos>>

-----------------------------------------------------------------------------
(* Third pass: unused receivables of one date, summed *)

\* the grouping with every unused receivable in one group, whatever its date
AgrupaRecebimentosSemData(idx, grupos) ==
    LET livres == {i \in DOMAIN recebimentos_transactions :
                        i >= idx /\ i \notin usados_receb}
    IN  IF livres = {} THEN grupos ELSE Append(grupos, Ordenado(livres))

RECURSIVE AgrupaRecebimentos(_, _)
\* recebimentos_nao_usados and the loop that fills grupos_recebimentos
AgrupaRecebimentos(idx, grupos) ==
    IF idx > Len(recebimentos_transactions) THEN grupos
    ELSE IF ~(idx \notin usados_receb) THEN AgrupaRecebimentos(idx + 1, grupos)
    ELSE LET pos == {g \in DOMAIN grupos :
                        recebimentos_transactions[grupos[g][1]].data
                            = recebimentos_transactions[idx].data} IN
         IF pos = {}
         THEN AgrupaRecebimentos(idx + 1, Append(grupos, <<idx>>))
         ELSE LET g == CHOOSE g \in pos : TRUE IN
              AgrupaRecebimentos(idx + 1, [grupos EXCEPT ![g] = Append(@, idx)])

\* the grouping without its `if idx_rec not in usados_receb`
GruposRecebimentosSemFiltro ==
    LET mesma(j) == {i \in DOMAIN recebimentos_transactions :
                        recebimentos_transactions[i].data
                            = recebimentos_transactions[j].data}
        primeiros == {j \in DOMAIN recebimentos_transactions : j = Min(mesma(j))}
    IN  [g \in 1..Cardinality(primeiros) |-> Ordenado(mesma(Ordenado(primeiros)[g]))]

GruposRecebimentos == AgrupaRecebimentos(1, <<>>)

RECURSIVE VarreSomaReceb(_, _, _)
\* the scan of a receivables group's summed amount over the unused bank entries
VarreSomaReceb(data, valor_total, idx) ==
    IF idx > Len(banco_transactions) THEN Nenhum
    ELSE LET banco_tx == banco_transactions[idx] IN
         IF idx \in usados_banco
         THEN VarreSomaReceb(data, valor_total, idx + 1)
         ELSE IF ~DataOK(banco_tx.data, data, tolerancia_dias)
         THEN VarreSomaReceb(data, valor_total, idx + 1)
         ELSE IF Abs(valor_total - banco_tx.valor) <= tolerancia_valor
         THEN idx
         ELSE VarreSomaReceb(data, valor_total, idx + 1)

BuscaSomaReceb(data, valor_total) == VarreSomaReceb(data, valor_total, 1)

SemDoGrupoReceb(transacoes) ==
    [k \in 1..Len(transacoes) |->
        Registro(SEM_CORRESPONDENCIA, "recebimento sem individual ou somada",
                 <<>>, <<transacoes[k]>>)]

\* recebimentos_nao_usados and the grouping loop, run when the second loop is over
FimSegundaPassada ==
    /\ pc = "passada2"
    /\ idx_grupo > Len(grupos_banco)
    /\ grupos_recebimentos' = GruposRecebimentos
    /\ idx_grupo' = 1
    /\ pc' = "passada3"
    /\ UNCHANGED <<origem, arquivo_banco, arquivo_receb, banco_transactions,
                   recebimentos_transactions, tolerancia_valor, tolerancia_dias,
                   results, usados_banco, usados_receb, idx_banco, grupos_banco>>

\* one iteration of the loop over grupos_recebimentos
TerceiraPassada ==
    /\ pc = "passada3"
    /\ idx_grupo <= Len(grupos_recebimentos)
    /\ LET transacoes == grupos_recebimentos[idx_grupo]
           data == recebimentos_transactions[transacoes[1]].data
           valor_total == SomaValores(recebimentos_transactions, transacoes, 1)
           match_idx == BuscaSomaReceb(data, valor_total)
       IN  IF Len(transacoes) = 1
           THEN /\ results' = Append(results,
                        Registro(SEM_CORRESPONDENCIA, "recebimento sem banco",
                                 <<>>, <<transacoes[1]>>))
                /\ UNCHANGED <<usados_receb, usados_banco>>
           ELSE IF match_idx # Nenhum
           THEN /\ usados_banco' = usados_banco \cup {match_idx}
                /\ usados_receb' = usados_receb \cup SeqParaConj(transacoes)
                /\ results' = Append(results,
                        Registro(ENCONTRADA_RECEBIMENTOS_SOMADOS,
                                 "recebimentos somados", <<match_idx>>, transacoes))
           ELSE /\ results' = results \o SemDoGrupoReceb(transacoes)
                /\ UNCHANGED <<usados_receb, usados_banco>>
    /\ idx_grupo' = idx_grupo + 1
    /\ UNCHANGED <<origem, arquivo_banco, arquivo_receb, banco_transactions,
                   recebimentos_transactions, tolerancia_valor, tolerancia_dias,
                   pc, idx_banco, grupos_banco, grupos_recebimentos>>

-----------------------------------------------------------------------------
(* Fourth pass: the bank entries still unused *)

RECURSIVE SemDoBanco(_)
\* the records the fourth loop appends, from bank position idx on
SemDoBanco(idx) ==
    IF idx > Len(banco_transactions) THEN <<>>
    ELSE IF idx \notin usados_banco
    THEN <<Registro(SEM_CORRESPONDENCIA, "banco sem correspondencia",
                    <<idx>>, <<>>)>> \o SemDoBanco(idx + 1)
    ELSE SemDoBanco(idx + 1)

\* QuartaPassada emptying the two lists it was given before it returns
QuartaPassadaEsvazia ==
    /\ pc = "passada3"
    /\ idx_grupo > Len(grupos_recebimentos)
    /\ results' = results \o SemDoBanco(1)
    /\ pc' = "done"
    /\ banco_transactions' = <<>>
    /\ recebimentos_transactions' = <<>>
    /\ UNCHANGED <<origem, arquivo_banco, arquivo_receb, tolerancia_valor,
                   tolerancia_dias, usados_banco, usados_receb, idx_banco,
                   grupos_banco, grupos_recebimentos, idx_grupo>>

\* the fourth loop and the return, run when the third loop is over
QuartaPassada ==
    /\ pc = "passada3"
    /\ idx_grupo > Len(grupos_recebimentos)
    /\ results' = results \o SemDoBanco(1)
    /\ pc' = "done"
    /\ UNCHANGED <<origem, arquivo_banco, arquivo_receb, banco_transactions,
                   recebimentos_transactions, tolerancia_valor, tolerancia_dias,
                   usados_banco, usados_receb, idx_banco, grupos_banco,
                   grupos_recebimentos, idx_grupo>>

-----------------------------------------------------------------------------
(* executar_auditoria: the loaders and the call with default tolerances *)

\* a file: the transactions its loader builds from it, and how reading fares.
\*   "ok"        every reader succeeds
\*   "ilegivel"  the file cannot be read or parsed at all
\*   "linha"     the file reads, and a row makes the PIX loader raise something
\*               other than ValueError or KeyError
Arquivo(estado, linhas) == [estado |-> estado, linhas |-> linhas]
SemArquivo == Arquivo("nenhum", <<>>)       \* direct call: no file

\* load_banco_pix_json, load_recebimentos_json, load_recebimentos_excel:
\* the transactions of the file, and [] on any exception
Carrega(arquivo) == IF arquivo.estado = "ok" THEN arquivo.linhas ELSE <<>>

\* pd.read_json / load_generated_data of the receivables file raises and
\* executar_auditoria re-raises: the run is over before the PIX loaders
AbortaLeitura ==
    /\ pc = "carrega"
    /\ arquivo_receb.estado = "ilegivel"
    /\ pc' = "abortado"
    /\ UNCHANGED <<origem, arquivo_banco, arquivo_receb, banco_transactions,
                   recebimentos_transactions, tolerancia_valor, tolerancia_dias,
                   results, usados_banco, usados_receb, idx_banco, grupos_banco,
                   grupos_recebimentos, idx_grupo>>

\* the two PIX loaders, then audit_pix_transactions is entered
CarregaDados ==
    /\ pc = "carrega"
    /\ arquivo_receb.estado # "ilegivel"
    /\ banco_transactions' = Carrega(arquivo_banco)
    /\ recebimentos_transactions' = Carrega(arquivo_receb)
    /\ pc' = "passada1"
    /\ UNCHANGED <<origem, arquivo_banco, arquivo_receb, tolerancia_valor,
                   tolerancia_dias, results, usados_banco, usados_receb,
                   idx_banco, grupos_banco, grupos_recebimentos, idx_grupo>>

-----------------------------------------------------------------------------
(* PixAuditor (audit_pix_unificado.py): the two tolerance predicates.      *)
(*                                                                         *)
(* Amounts are whole cents and tolerance_value is an exact fraction        *)
(* num/den (den > 0), so the quotient of values_are_close is compared by   *)
(* cross-multiplication.  A date string is the list of its numeric fields  *)
(* and the separator between them; a field below 100 is written with one   *)
(* or two digits, a field from 1000 to 9999 with four.                     *)

Fracao(num, den) == [num |-> num, den |-> den]

\* a / b <= f for b # 0, as the float comparison of an exact quotient
QuocienteMenorIgual(a, b, f) ==
    IF b > 0 THEN a * f.den <= f.num * b ELSE a * f.den >= f.num * b

\* what a call did: it has not returned, it returned a bool, it raised
Pendente == [estado |-> "pendente", valor |-> FALSE]
Retornou(valor) == [estado |-> "retornou", valor |-> valor]
Levantou(tipo) == [estado |-> tipo, valor |-> FALSE]

\* values_are_close without the guard of its second if
values_are_close_sem_guarda(val1, val2) ==
    IF val1 = 0 /\ val2 = 0 THEN Retornou(TRUE)
    ELSE IF Max({val1, val2}) = 0 THEN Levantou("ZeroDivisionError")
    ELSE Retornou(QuocienteMenorIgual(Abs(val1 - val2), Max({val1, val2}),
                                      tolerance_value))

values_are_close(val1, val2) ==
    IF val1 = 0 /\ val2 = 0 THEN Retornou(TRUE)
    ELSE IF val1 = 0 \/ val2 = 0 THEN Retornou(FALSE)
    ELSE IF Max({val1, val2}) = 0 THEN Levantou("ZeroDivisionError")
    ELSE Retornou(QuocienteMenorIgual(Abs(val1 - val2), Max({val1, val2}),
                                      tolerance_value))

\* a date argument: a str (separator and numeric fields) or not a str
Texto(sep, campos) == [str |-> TRUE, sep |-> sep, campos |-> campos]
NaoTexto == [str |-> FALSE, sep |-> "", campos |-> <<>>]

Bissexto(ano) == ano % 4 = 0 /\ (ano % 100 # 0 \/ ano % 400 = 0)

DiasNoMes(ano, mes) ==
    IF mes = 2 THEN (IF Bissexto(ano) THEN 29 ELSE 28)
    ELSE IF mes \in {4, 6, 9, 11} THEN 30 ELSE 31

RECURSIVE DiasAntesDoMes(_, _)
DiasAntesDoMes(ano, mes) ==
    IF mes = 1 THEN 0 ELSE DiasAntesDoMes(ano, mes - 1) + DiasNoMes(ano, mes - 1)

DiasAntesDoAno(ano) ==
    (ano - 1) * 365 + (ano - 1) \div 4 - (ano - 1) \div 100 + (ano - 1) \div 400

\* datetime.toordinal of a valid date
Ordinal(ano, mes, dia) == DiasAntesDoAno(ano) + DiasAntesDoMes(ano, mes) + dia

\* the formats of parse_date, in its order
FORMATS == << [sep |-> "/", ordem |-> "dmY"],
              [sep |-> "-", ordem |-> "Ymd"],
              [sep |-> "-", ordem |-> "dmY"] >>

ValueError == -1
\* strptime without the calendar check of the datetime constructor
strptime_sem_calendario(date_str, fmt) ==
    IF date_str.sep # fmt.sep \/ Len(date_str.campos) # 3 THEN ValueError
    ELSE LET c == date_str.campos
             dia == IF fmt.ordem = "dmY" THEN c[1] ELSE c[3]
             mes == c[2]
             ano == IF fmt.ordem = "dmY" THEN c[3] ELSE c[1]
         IN  IF dia \in 1..31 /\ mes \in 1..12 /\ ano \in 1000..9999
             THEN Ordinal(ano, mes, dia)
             ELSE ValueError

\* datetime.strptime(date_str, fmt): the ordinal of the date, ValueError when
\* the string does not match the format or names no calendar day
strptime(date_str, fmt) ==
    IF date_str.sep # fmt.sep \/ Len(date_str.campos) # 3 THEN ValueError
    ELSE LET c == date_str.campos
             dia == IF fmt.ordem = "dmY" THEN c[1] ELSE c[3]
             mes == c[2]
             ano == IF fmt.ordem = "dmY" THEN c[3] ELSE c[1]
         IN  IF /\ dia \in 1..31
                /\ mes \in 1..12
                /\ ano \in 1000..9999
                /\ dia <= DiasNoMes(ano, mes)
             THEN Ordinal(ano, mes, dia)
             ELSE ValueError

RECURSIVE TentaFormatos(_, _)
TentaFormatos(date_str, k) ==
    IF k > Len(FORMATS) THEN Nenhum
    ELSE IF strptime(date_str, FORMATS[k]) # ValueError
    THEN strptime(date_str, FORMATS[k])
    ELSE TentaFormatos(date_str, k + 1)

\* parse_date: strptime raises TypeError for an argument that is not a str,
\* and the outer except turns that into None
parse_date(date_str) ==
    IF ~date_str.str THEN Nenhum ELSE TentaFormatos(date_str, 1)

dates_are_close(date1, date2) ==
    LET dt1 == parse_date(date1)
        dt2 == parse_date(date2)
    IN  IF dt1 = Nenhum \/ dt2 = Nenhum THEN Retornou(FALSE)
        ELSE Retornou(Abs(dt1 - dt2) <= tolerance_days)

\* the calls of the model
ChamadaValores(val1, val2) ==
    [metodo |-> "values_are_close", val1 |-> val1, val2 |-> val2,
     date1 |-> NaoTexto, date2 |-> NaoTexto]
ChamadaDatas(date1, date2) ==
    [metodo |-> "dates_are_close", val1 |-> 0, val2 |-> 0,
     date1 |-> date1, date2 |-> date2]
SemChamada == [metodo |-> "nenhum", val1 |-> 0, val2 |-> 0,
               date1 |-> NaoTexto, date2 |-> NaoTexto]

\* amounts in cents: the boundary of 1 % around 100.00, zero, small and
\* negative amounts
Centavos == {0, 500, 9900, 10000, 10100, 10101, 10102, -500, -10000}
ToleranceValues == {Fracao(1, 100), Fracao(0, 1), Fracao(1, 1), Fracao(2, 1),
                    Fracao(-1, 100)}

\* date arguments: the three formats, a month end in a leap year, a year
\* end, and the ways of not being a date
DateStrs ==
    { Texto("/", <<1, 6, 2025>>), Texto("/", <<4, 6, 2025>>),
      Texto("-", <<2025, 6, 3>>), Texto("-", <<1, 6, 2025>>),
      Texto("/", <<28, 2, 2024>>), Texto("/", <<1, 3, 2024>>),
      Texto("/", <<31, 12, 2024>>), Texto("-", <<2025, 1, 2>>),
      Texto("/", <<29, 2, 2025>>), Texto("/", <<2025, 6, 1>>),
      Texto("/", <<6, 2025>>), Texto("", <<>>), NaoTexto }
ToleranceDays == {0, 1, 3, -1}

ValuesAreClose ==
    /\ chamada.metodo = "values_are_close"
    /\ retorno = Pendente
    /\ retorno' = values_are_close(chamada.val1, chamada.val2)
    /\ UNCHANGED <<tolerance_days, tolerance_value, chamada>>

DatesAreClose ==
    /\ chamada.metodo = "dates_are_close"
    /\ retorno = Pendente
    /\ retorno' = dates_are_close(chamada.date1, chamada.date2)
    /\ UNCHANGED <<tolerance_days, tolerance_value, chamada>>

\* no PixAuditor is at work
PixAuditorParado ==
    /\ tolerance_days = 3
    /\ tolerance_value = Fracao(1, 100)
    /\ chamada = SemChamada
    /\ retorno = Pendente

-----------------------------------------------------------------------------
(* DataAuditor (modules/auditor.py): the field audit of a CSV against the  *)
(* generated data, one step per CSV row.                                   *)
(*                                                                         *)
(* A DataFrame is its column names and its rows, a row the values of the   *)
(* columns in their order.  A cell is a number (whole cents), NaN or a     *)
(* text.  tolerance_percentage is an exact fraction.  Column names are     *)
(* written without accents ('N° OS' is "No OS"); notes are short tags.     *)

Num(n) == [tipo |-> "num", n |-> n, s |-> ""]
Txt(s) == [tipo |-> "txt", n |-> 0, s |-> s]
NaN == [tipo |-> "nan", n |-> 0, s |-> ""]
ValorNone == [tipo |-> "none", n |-> 0, s |-> ""]

DataFrame(columns, rows) == [columns |-> columns, rows |-> rows]

\* an Optional[float]: None, or the fraction num/den
SemNumero == [some |-> FALSE, num |-> 0, den |-> 1]
Numero(num, den) == [some |-> TRUE, num |-> num, den |-> den]

AuditResult(field_name, csv_value, generated_value, is_match, difference, percentage_diff, notes) ==
    [field_name |-> field_name, csv_value |-> csv_value,
     generated_value |-> generated_value, is_match |-> is_match,
     difference |-> difference, percentage_diff |-> percentage_diff,
     notes |-> notes]

\* normalization_map of normalize_column_names, in its order
NORMALIZATION_MAP ==
    << [standard_name |-> "No OS",
        variations |-> {"N_OS", "No OS", "NUMERO_OS", "OS", "numero_os"}],
       [standard_name |-> "DATA PGTO",
        variations |-> {"DATA_PGTO", "DATA PGTO", "DATA_PAGAMENTO", "data_pagamento"}],
       [standard_name |-> "VALOR TOTAL",
        variations |-> {"VALOR_TOTAL", "VALOR TOTAL", "TOTAL", "valor_total"}],
       [standard_name |-> "VALOR PAGO",
        variations |-> {"VALOR_PAGO", "VALOR PAGO", "PAGO", "valor_pago"}],
       [standard_name |-> "CODIGO CLIENTE",
        variations |-> {"CODIGO_CLIENTE", "CODIGO CLIENTE", "CLIENTE", "codigo_cliente"}],
       [standard_name |-> "VEICULO (PLACA)",
        variations |-> {"VEICULO_PLACA", "VEICULO (PLACA)", "PLACA", "placa_veiculo"}] >>

\* the first column of that name (0: there is none), and the cell under it
Posicao(columns, name) ==
    IF \E k \in DOMAIN columns : columns[k] = name
    THEN Min({k \in DOMAIN columns : columns[k] = name})
    ELSE 0
Celula(columns, row, name) == row[Posicao(columns, name)]

\* one turn of the outer loop: the first column that is a variation is
\* renamed to the standard name
Renomeia(columns, entrada) ==
    LET achadas == {k \in DOMAIN columns : columns[k] \in entrada.variations}
    IN  IF achadas = {} THEN columns
        ELSE LET col == columns[Min(achadas)]
             IN  [k \in DOMAIN columns |->
                    IF columns[k] = col THEN entrada.standard_name ELSE columns[k]]

RECURSIVE NormalizaDesde(_, _)
NormalizaDesde(columns, k) ==
    IF k > Len(NORMALIZATION_MAP) THEN columns
    ELSE NormalizaDesde(Renomeia(columns, NORMALIZATION_MAP[k]), k + 1)

normalize_column_names(df) == DataFrame(NormalizaDesde(df.columns, 1), df.rows)

\* the key field as audit_data normalizes it
RECURSIVE ChaveNormalizadaDesde(_, _)
ChaveNormalizadaDesde(campo, k) ==
    IF k > Len(NORMALIZATION_MAP) THEN campo
    ELSE IF campo \in NORMALIZATION_MAP[k].variations
    THEN NORMALIZATION_MAP[k].standard_name
    ELSE ChaveNormalizadaDesde(campo, k + 1)
ChaveNormalizada(campo) == ChaveNormalizadaDesde(campo, 1)

\* float(value) if pd.notna(value) else 0.0, for a value that is no text
Float(value) == IF value.tipo = "num" THEN value.n ELSE 0

\* float() of a text raises ValueError, caught by the except of line 208
compare_numeric_values(value1, value2, field_name) ==
    IF value1.tipo = "txt" \/ value2.tipo = "txt"
    THEN AuditResult(field_name, value1, value2, FALSE, SemNumero, SemNumero,
                     "erro na conversao numerica")
    ELSE LET val1 == Float(value1)
             val2 == Float(value2)
             difference == Abs(val1 - val2)
             maior == Max({val1, val2})
             percentage_diff == IF maior > 0 THEN Numero(difference * 100, maior)
                                ELSE Numero(0, 1)
             is_match ==
                IF maior > 0
                THEN difference * tolerance_percentage.den
                        <= tolerance_percentage.num * maior
                ELSE 0 <= tolerance_percentage.num
         IN  AuditResult(field_name, Num(val1), Num(val2), is_match,
                         Numero(difference, 1), percentage_diff,
                         IF is_match THEN "diferenca"
                         ELSE "diferenca excede tolerancia")

\* str(value).strip().upper() of the texts of the model
StripUpper(s) == CASE s = " abc1d23 " -> "ABC1D23"
                   [] s = "abc1d23" -> "ABC1D23"
                   [] OTHER -> s

\* the text compare_text_values compares: "" for NaN and None; a number
\* stands for its own decimal text
TextoDe(value) ==
    IF value.tipo \in {"nan", "none"} THEN Txt("")
    ELSE IF value.tipo = "num" THEN value
    ELSE Txt(StripUpper(value.s))

compare_text_values(value1, value2, field_name) ==
    LET str1 == TextoDe(value1)
        str2 == TextoDe(value2)
    IN  AuditResult(field_name, str1, str2, str1 = str2, SemNumero, SemNumero,
                    IF str1 = str2 THEN "valores identicos" ELSE "valores diferentes")

\* the names of the model whose upper case holds one of the keywords VALOR,
\* PAGO, DEVEDOR, CARTAO, DINHEIRO, PIX, TROCO; no name of the model holds DATA
CampoDeValor(generated_field) ==
    generated_field \in {"VALOR TOTAL", "VALOR PAGO", "DEVEDOR", "valor_total",
                         "valor_pago"}

\* what audit_record did: the results it returned, or the exception it raised
Resultados(results_) == [erro |-> "", results |-> results_]
Erro(tipo) == [erro |-> tipo, results |-> <<>>]

\* one turn of the loop of audit_record
AuditaCampo(csv_columns, csv_row, gen_columns, generated_row, par) ==
    LET csv_field == par[1]
        generated_field == par[2]
    IN  IF Posicao(csv_columns, csv_field) = 0
        THEN AuditResult(csv_field, ValorNone, ValorNone, FALSE, SemNumero,
                         SemNumero, "campo nao encontrado no CSV")
        ELSE IF Posicao(gen_columns, generated_field) = 0
        THEN AuditResult(generated_field, Celula(csv_columns, csv_row, csv_field),
                         ValorNone, FALSE, SemNumero, SemNumero,
                         "campo nao encontrado nos dados gerados")
        ELSE LET csv_value == Celula(csv_columns, csv_row, csv_field)
                 generated_value == Celula(gen_columns, generated_row, generated_field)
             IN  IF CampoDeValor(generated_field)
                 THEN compare_numeric_values(csv_value, generated_value, generated_field)
                 ELSE compare_text_values(csv_value, generated_value, generated_field)

\* audit_record indexing the two rows without looking for the fields first
audit_record_sem_guarda(csv_columns, csv_row, gen_columns, generated_row, mappings) ==
    IF \E k \in DOMAIN mappings :
            \/ Posicao(csv_columns, mappings[k][1]) = 0
            \/ Posicao(gen_columns, mappings[k][2]) = 0
    THEN Erro("KeyError")
    ELSE Resultados([k \in DOMAIN mappings |->
            AuditaCampo(csv_columns, csv_row, gen_columns, generated_row, mappings[k])])

audit_record(csv_columns, csv_row, gen_columns, generated_row, mappings) ==
    Resultados([k \in DOMAIN mappings |->
        AuditaCampo(csv_columns, csv_row, gen_columns, generated_row, mappings[k])])

\* generated_df[generated_df[key] == key_value]: the rows of that key, in order
RECURSIVE LinhasDaChave(_, _, _)
LinhasDaChave(df, key, key_value) ==
    IF df.rows = <<>> THEN <<>>
    ELSE LET row == Head(df.rows)
             resto == LinhasDaChave(DataFrame(df.columns, Tail(df.rows)), key, key_value)
         IN  IF /\ Celula(df.columns, row, key).tipo = "num"
                /\ key_value.tipo = "num"
                /\ Celula(df.columns, row, key).n = key_value.n
             THEN <<row>> \o resto
             ELSE resto

\* csv_row.get(csv_field)
Get(columns, row, name) ==
    IF Posicao(columns, name) = 0 THEN ValorNone ELSE Celula(columns, row, name)

\* the not-found branch appending one result for the row
NaoEncontradoUmaVez(csv_columns, csv_row, mappings) ==
    IF mappings = <<>> THEN <<>>
    ELSE <<AuditResult(mappings[1][2], Get(csv_columns, csv_row, mappings[1][1]),
                       ValorNone, FALSE, SemNumero, SemNumero,
                       "registro nao encontrado nos dados gerados")>>

\* the results of a CSV row whose key no generated row has
NaoEncontrado(csv_columns, csv_row, mappings) ==
    [k \in DOMAIN mappings |->
        AuditResult(mappings[k][2], Get(csv_columns, csv_row, mappings[k][1]),
                    ValorNone, FALSE, SemNumero, SemNumero,
                    "registro nao encontrado nos dados gerados")]

\* the count of the results without its `if result.is_match`
ContaTodos(results_) == Len(results_)

RECURSIVE Conta(_)
Conta(results_) ==
    IF results_ = <<>> THEN 0
    ELSE (IF Head(results_).is_match THEN 1 ELSE 0) + Conta(Tail(results_))

SemResumo ==
    [total_records |-> 0, matching_records |-> 0, mismatched_records |-> 0,
     total_fields_checked |-> 0, matching_fields |-> 0, mismatched_fields |-> 0]

\* lines 349 to 386: the two files are loaded, their columns normalized and
\* the key field looked for; AuditError when a frame lacks it
AuditDataInicio ==
    /\ pc_auditor = "audit_data"
    /\ LET csv == normalize_column_names(csv_file)
           generated == normalize_column_names(generated_file)
           chave == ChaveNormalizada(key_field)
       IN  /\ csv_df' = csv
           /\ generated_df' = generated
           /\ normalized_key_field' = chave
           /\ pc_auditor' = IF \/ Posicao(csv.columns, chave) = 0
                               \/ Posicao(generated.columns, chave) = 0
                            THEN "AuditError" ELSE "linhas"
    /\ all_results' = <<>>
    /\ matching_records' = 0
    /\ mismatched_records' = 0
    /\ linha' = 1
    /\ UNCHANGED <<tolerance_percentage, csv_file, generated_file, field_mappings,
                   key_field, valores, summary>>

\* one turn of the loop over the CSV rows
AuditDataLinha ==
    /\ pc_auditor = "linhas"
    /\ linha <= Len(csv_df.rows)
    /\ LET csv_row == csv_df.rows[linha]
           key_value == Celula(csv_df.columns, csv_row, normalized_key_field)
           matching_generated ==
                LinhasDaChave(generated_df, normalized_key_field, key_value)
       IN  IF matching_generated = <<>>
           THEN /\ mismatched_records' = mismatched_records + 1
                /\ all_results' = all_results \o
                        NaoEncontrado(csv_df.columns, csv_row, field_mappings)
                /\ linha' = linha + 1
                /\ UNCHANGED <<matching_records, pc_auditor>>
           ELSE LET record == audit_record(csv_df.columns, csv_row,
                                           generated_df.columns,
                                           matching_generated[1], field_mappings)
                IN  IF record.erro # ""
                    THEN /\ pc_auditor' = "AuditError"
                         /\ UNCHANGED <<all_results, matching_records,
                                        mismatched_records, linha>>
                    ELSE /\ all_results' = all_results \o record.results
                         /\ IF \A k \in DOMAIN record.results :
                                    record.results[k].is_match
                            THEN /\ matching_records' = matching_records + 1
                                 /\ UNCHANGED mismatched_records
                            ELSE /\ mismatched_records' = mismatched_records + 1
                                 /\ UNCHANGED matching_records
                         /\ linha' = linha + 1
                         /\ UNCHANGED pc_auditor
    /\ UNCHANGED <<tolerance_percentage, csv_file, generated_file, field_mappings,
                   key_field, valores, csv_df, generated_df,
                   normalized_key_field, summary>>

\* the summary of audit_data counting the generated rows as well
ResumoComGerados ==
    [total_records |-> Len(csv_df.rows) + Len(generated_df.rows),
     matching_records |-> matching_records,
     mismatched_records |-> mismatched_records,
     total_fields_checked |-> Len(all_results),
     matching_fields |-> Conta(all_results),
     mismatched_fields |-> Len(all_results) - Conta(all_results)]

\* lines 418 to 436
Resumo ==
    [total_records |-> Len(csv_df.rows),
     matching_records |-> matching_records,
     mismatched_records |-> mismatched_records,
     total_fields_checked |-> Len(all_results),
     matching_fields |-> Conta(all_results),
     mismatched_fields |-> Len(all_results) - Conta(all_results)]

\* the statistics and the return, when the loop is over
AuditDataResumo ==
    /\ pc_auditor = "linhas"
    /\ linha > Len(csv_df.rows)
    /\ summary' = Resumo
    /\ pc_auditor' = "retornou"
    /\ UNCHANGED <<tolerance_percentage, csv_file, generated_file, field_mappings,
                   key_field, valores, csv_df, generated_df,
                   normalized_key_field, all_results, matching_records,
                   mismatched_records, linha>>

\* compare_numeric_values called on two values
CompareNumericValues ==
    /\ pc_auditor = "compare_numeric_values"
    /\ all_results' = <<compare_numeric_values(valores[1], valores[2], "VALOR")>>
    /\ pc_auditor' = "retornou"
    /\ UNCHANGED <<tolerance_percentage, csv_file, generated_file, field_mappings,
                   key_field, valores, csv_df, generated_df,
                   normalized_key_field, matching_records, mismatched_records,
                   linha, summary>>

\* the inputs of the model
MaxLinhas == 2
TolerancePercentages == {Fracao(0, 1), Fracao(1, 100), Fracao(5, 100)}

\* rows of three cells: the key, an amount, a second amount
LinhasCSV ==
    {<<Num(k), Num(t), Num(10000)>> : k \in {1, 2},
                                      t \in {10000, 10050, 10200, 0, -1000}}
LinhasGeradas ==
    {<<Num(k), Num(t), Num(10000)>> : k \in {1, 2, 3}, t \in {10000, 0, -500}}

Configuracao(csv_columns, generated_columns, mappings, key) ==
    [csv_columns |-> csv_columns, generated_columns |-> generated_columns,
     field_mappings |-> mappings, key_field |-> key]

PADRAO == <<"No OS", "VALOR TOTAL", "VALOR PAGO">>

\* the column names of the two files, the mapping and the key field:
\*   standard names on both sides;
\*   the CSV names of the tests, which are variations of standard names;
\*   CSV names that are variations of nothing;
\*   a mapped field the generated data lacks;
\*   a mapped field both sides lack;
\*   a key field the CSV lacks
Configuracoes ==
    { Configuracao(PADRAO, PADRAO,
        << <<"No OS", "No OS">>, <<"VALOR TOTAL", "VALOR TOTAL">>,
           <<"VALOR PAGO", "VALOR PAGO">> >>, "No OS"),
      Configuracao(<<"numero_os", "valor_total", "valor_pago">>, PADRAO,
        << <<"numero_os", "No OS">>, <<"valor_total", "VALOR TOTAL">>,
           <<"valor_pago", "VALOR PAGO">> >>, "numero_os"),
      Configuracao(<<"os_id", "total_os", "pago_os">>,
                   <<"os_id", "VALOR TOTAL", "VALOR PAGO">>,
        << <<"total_os", "VALOR TOTAL">>, <<"pago_os", "VALOR PAGO">> >>, "os_id"),
      Configuracao(PADRAO, <<"No OS", "VALOR TOTAL", "OBS">>,
        << <<"No OS", "No OS">>, <<"VALOR TOTAL", "VALOR TOTAL">>,
           <<"VALOR PAGO", "VALOR PAGO">> >>, "No OS"),
      Configuracao(PADRAO, PADRAO,
        << <<"DEVEDOR", "DEVEDOR">>, <<"VALOR TOTAL", "VALOR TOTAL">> >>, "No OS"),
      Configuracao(PADRAO, PADRAO,
        << <<"VALOR TOTAL", "VALOR TOTAL">> >>, "PLACA") }

\* the arguments of a call of compare_numeric_values
Celulas == {Num(n) : n \in {-1000, -500, 0, 500, 9900, 10000, 10010, 10200}}
                \cup {NaN, Txt("abc1d23")}

SemDataFrame == DataFrame(<<>>, <<>>)

LocaisDoAuditor ==
    /\ csv_df = SemDataFrame
    /\ generated_df = SemDataFrame
    /\ normalized_key_field = ""
    /\ all_results = <<>>
    /\ matching_records = 0
    /\ mismatched_records = 0
    /\ linha = 1
    /\ summary = SemResumo

\* no DataAuditor is at work
DataAuditorParado ==
    /\ LocaisDoAuditor
    /\ tolerance_percentage = Fracao(1, 100)
    /\ csv_file = SemDataFrame
    /\ generated_file = SemDataFrame
    /\ field_mappings = <<>>
    /\ key_field = "No OS"
    /\ valores = <<NaN, NaN>>
    /\ pc_auditor = "parado"

-----------------------------------------------------------------------------

(* Card audit: audit_cartao_transactions *)

MaxCartao == 3      \* card transactions of a call
MaxGerados == 2     \* generated rows of a call

TOLERANCIA_CARTAO == Fracao(1, 100)     \* valor_cartao * 0.01

COINCIDENTE == "COINCIDENTE"
DIVERGENTE == "DIVERGENTE"
NAO_ENCONTRADA == "NAO ENCONTRADA"
VALOR_NAO_ENCONTRADO == "VALOR NAO ENCONTRADO"

\* an optional amount: a float or None
Algum(n) == [some |-> TRUE, n |-> n]
SemValor == [some |-> FALSE, n |-> 0]

SemChave == -1      \* the result dict has no key 'os_correspondente'

\* abs(valor_gen - valor_cartao) <= (valor_cartao * 0.01), amounts in cents
DentroDaTolerancia(valor_gen, valor_cartao) ==
    Abs(valor_gen - valor_cartao) * TOLERANCIA_CARTAO.den
        <= valor_cartao * TOLERANCIA_CARTAO.num

\* generated_df[generated_df['DATA PGTO'] == data_cartao]
MatchingGenerated(gerados, data_cartao) ==
    SelectSeq(gerados.rows, LAMBDA gen_row : gen_row.DATA_PGTO = data_cartao)

RECURSIVE ProcuraValor(_, _, _, _, _)
\* the loop over matching_generated, from its n-th row on: the position of
\* the first row whose amount in campo_procurado is within the tolerance
ProcuraValor(columns, matching_generated, campo_procurado, valor_cartao, n) ==
    IF n > Len(matching_generated) THEN Nenhum
    ELSE IF campo_procurado \notin columns
    THEN ProcuraValor(columns, matching_generated, campo_procurado, valor_cartao, n + 1)
    ELSE LET valor_gen == matching_generated[n][campo_procurado] IN
         IF valor_gen.tipo = "num" /\ DentroDaTolerancia(valor_gen.n, valor_cartao)
         THEN n
         ELSE ProcuraValor(columns, matching_generated, campo_procurado, valor_cartao, n + 1)

ResultadoCartao(cartao_row, status, valor_gerado, diferenca, os_correspondente, observacao) ==
    [identificador |-> cartao_row.Identificador,
     data_cartao |-> cartao_row.DATA_PGTO,
     valor_cartao |-> cartao_row.VALOR_AUDITORIA,
     tipo_pagamento |-> cartao_row.TIPO_PAGAMENTO,
     status |-> status, valor_gerado |-> valor_gerado, diferenca |-> diferenca,
     os_correspondente |-> os_correspondente, observacao |-> observacao]

\* the dict the loop appends for cartao_row; com_os is whether the version
\* of the function records os_correspondente
AuditaTransacao(gerados, cartao_row, com_os) ==
    LET valor_cartao == cartao_row.VALOR_AUDITORIA
        matching_generated == MatchingGenerated(gerados, cartao_row.DATA_PGTO)
        campo_procurado ==
            IF cartao_row.TIPO_PAGAMENTO = "CARTAO" THEN "CARTAO" ELSE "PIX"
        n == ProcuraValor(gerados.columns, matching_generated, campo_procurado,
                          valor_cartao, 1)
        sem_os == IF com_os THEN Nenhum ELSE SemChave
    IN  IF Len(matching_generated) = 0
        THEN ResultadoCartao(cartao_row, NAO_ENCONTRADA, SemValor, SemValor,
                             sem_os, "data nao encontrada nos dados gerados")
        ELSE IF n # Nenhum
        THEN LET valor_encontrado == matching_generated[n][campo_procurado].n
                 diferenca == Abs(valor_cartao - valor_encontrado)
                 is_match == diferenca * TOLERANCIA_CARTAO.den
                                <= valor_cartao * TOLERANCIA_CARTAO.num
             IN  ResultadoCartao(cartao_row,
                    IF is_match THEN COINCIDENTE ELSE DIVERGENTE,
                    Algum(valor_encontrado), Algum(diferenca),
                    IF com_os THEN matching_generated[n].No_OS ELSE SemChave,
                    "encontrado na coluna")
        ELSE ResultadoCartao(cartao_row, VALOR_NAO_ENCONTRADO, SemValor, SemValor,
                             sem_os, "valor nao encontrado na coluna")

\* the counters without the increment of the last branch of the loop
EstatisticasSemUltimoRamo(stats, resultado) ==
    IF resultado.status = NAO_ENCONTRADA
    THEN [stats EXCEPT !.nao_encontradas = @ + 1]
    ELSE IF resultado.status = VALOR_NAO_ENCONTRADO THEN stats
    ELSE LET s == IF resultado.tipo_pagamento = "CARTAO"
                  THEN [stats EXCEPT !.cartao_encontradas = @ + 1]
                  ELSE [stats EXCEPT !.pix_encontradas = @ + 1]
         IN  IF resultado.status = COINCIDENTE
             THEN [s EXCEPT !.valores_coincidentes = @ + 1]
             ELSE [s EXCEPT !.valores_divergentes = @ + 1]

\* summary_stats after the iteration that appended resultado
Estatisticas(stats, resultado) ==
    IF resultado.status \in {NAO_ENCONTRADA, VALOR_NAO_ENCONTRADO}
    THEN [stats EXCEPT !.nao_encontradas = @ + 1]
    ELSE LET s == IF resultado.tipo_pagamento = "CARTAO"
                  THEN [stats EXCEPT !.cartao_encontradas = @ + 1]
                  ELSE [stats EXCEPT !.pix_encontradas = @ + 1]
         IN  IF resultado.status = COINCIDENTE
             THEN [s EXCEPT !.valores_coincidentes = @ + 1]
             ELSE [s EXCEPT !.valores_divergentes = @ + 1]

\* summary_stats as the function creates it
EstatisticasIniciais(total_transacoes) ==
    [total_transacoes |-> total_transacoes, cartao_encontradas |-> 0,
     pix_encontradas |-> 0, nao_encontradas |-> 0, valores_coincidentes |-> 0,
     valores_divergentes |-> 0]

\* one iteration of the loop of audit_cartao.py
AuditCartaoLinha ==
    /\ pc_cartao = "linhas"
    /\ modulo = "audit_cartao"
    /\ idx_cartao <= Len(cartao_args.cartao_df)
    /\ LET resultado == AuditaTransacao(cartao_args.generated_df,
                                        cartao_args.cartao_df[idx_cartao], FALSE)
       IN  /\ cartao_results' = Append(cartao_results, resultado)
           /\ summary_stats' = Estatisticas(summary_stats, resultado)
    /\ idx_cartao' = idx_cartao + 1
    /\ UNCHANGED <<modulo, cartao_args, pc_cartao>>

\* one iteration of the loop of auditoria_unificada_completa.py
AuditCartaoUnificadaLinha ==
    /\ pc_cartao = "linhas"
    /\ modulo = "auditoria_unificada_completa"
    /\ idx_cartao <= Len(cartao_args.cartao_df)
    /\ cartao_results' = Append(cartao_results,
            AuditaTransacao(cartao_args.generated_df,
                            cartao_args.cartao_df[idx_cartao], TRUE))
    /\ idx_cartao' = idx_cartao + 1
    /\ UNCHANGED <<modulo, cartao_args, summary_stats, pc_cartao>>

\* the loop is over
AuditCartaoFim ==
    /\ pc_cartao = "linhas"
    /\ idx_cartao > Len(cartao_args.cartao_df)
    /\ pc_cartao' = "fim"
    /\ UNCHANGED <<modulo, cartao_args, cartao_results, summary_stats, idx_cartao>>

\* the inputs: two payment dates, two amounts within 1 % of each other and
\* of 101.00; generated rows with or without an amount in each column, each
\* with its own order number; generated data with or without a CARTAO column
DatasPgto == {"2025-06-27", "2025-06-28"}
ValoresCartao == {10000, 10050}
TransacoesCartao ==
    [DATA_PGTO : DatasPgto, VALOR_AUDITORIA : ValoresCartao,
     TIPO_PAGAMENTO : {"CARTAO", "PIX"}]
LinhasGeradasCartao ==
    [DATA_PGTO : DatasPgto, CARTAO : {NaN, Num(10000), Num(10100)},
     PIX : {NaN, Num(10000)}]

\* cartao_df with the rows of linhas_, identified by their position
CartaoDf(linhas_) ==
    [i \in DOMAIN linhas_ |->
        [Identificador |-> i, DATA_PGTO |-> linhas_[i].DATA_PGTO,
         VALOR_AUDITORIA |-> linhas_[i].VALOR_AUDITORIA,
         TIPO_PAGAMENTO |-> linhas_[i].TIPO_PAGAMENTO]]

\* generated_df with the rows of linhas_, numbered 101, 102, ...
GeneratedDf(columns, linhas_) ==
    [columns |-> columns,
     rows |-> [j \in DOMAIN linhas_ |->
                [No_OS |-> 100 + j, DATA_PGTO |-> linhas_[j].DATA_PGTO,
                 CARTAO |-> linhas_[j].CARTAO, PIX |-> linhas_[j].PIX]]]

SemArgumentosCartao == [cartao_df |-> <<>>, generated_df |-> GeneratedDf({}, <<>>)]

\* no card audit is running
CartaoParado ==
    /\ modulo = "nenhum"
    /\ cartao_args = SemArgumentosCartao
    /\ cartao_results = <<>>
    /\ summary_stats = EstatisticasIniciais(0)
    /\ idx_cartao = 1
    /\ pc_cartao = "parado"

-----------------------------------------------------------------------------
(* PixAuditor.find_matches *)

MaxBancoPix == 2    \* bank transactions of a call of find_matches
MaxRecebPix == 2    \* receivables transactions
MaxCartaoPix == 1   \* card transactions

AuditMatch(banco_transaction, recebimentos_transaction, cartao_transaction, match_type, confidence, notes) ==
    [banco_transaction |-> banco_transaction,
     recebimentos_transaction |-> recebimentos_transaction,
     cartao_transaction |-> cartao_transaction, match_type |-> match_type,
     confidence |-> confidence, notes |-> notes]

Excecao == -1       \* a predicate raised

RECURSIVE ProcuraProxima(_, _, _)
\* a loop of find_matches over the list transactions, from position n on:
\* the position of the first entry whose date and amount are close to the
\* bank entry's, whatever the entries matched before
ProcuraProxima(banco_tx, transactions, n) ==
    IF n > Len(transactions) THEN Nenhum
    ELSE LET datas == dates_are_close(banco_tx.data, transactions[n].data)
             valores_ == values_are_close(banco_tx.valor, transactions[n].valor)
         IN  IF datas.estado # "retornou" THEN Excecao
             ELSE IF ~datas.valor THEN ProcuraProxima(banco_tx, transactions, n + 1)
             ELSE IF valores_.estado # "retornou" THEN Excecao
             ELSE IF valores_.valor THEN n
             ELSE ProcuraProxima(banco_tx, transactions, n + 1)

\* the AuditMatch of the bank entry at position idx; the partners are
\* positions in the two lists, Nenhum for None
MatchDoBanco(args, idx) ==
    LET banco_tx == args.banco_transactions[idx]
        rec == ProcuraProxima(banco_tx, args.recebimentos_transactions, 1)
        cartao == ProcuraProxima(banco_tx, args.cartao_transactions, 1)
    IN  IF rec # Nenhum /\ cartao # Nenhum
        THEN AuditMatch(idx, rec, cartao, "completo", "1.0", "")
        ELSE IF rec # Nenhum \/ cartao # Nenhum
        THEN AuditMatch(idx, rec, cartao, "parcial", "0.9", "")
        ELSE AuditMatch(idx, Nenhum, Nenhum, "sem_correspondencia", "1.0",
                        "sem correspondencia nos outros sistemas")

\* whether a predicate raises while the bank entry at idx is dealt with
LevantaNoBanco(args, idx) ==
    LET banco_tx == args.banco_transactions[idx] IN
    \/ ProcuraProxima(banco_tx, args.recebimentos_transactions, 1) = Excecao
    \/ ProcuraProxima(banco_tx, args.cartao_transactions, 1) = Excecao

\* find_matches: the call as a whole
FindMatches ==
    /\ pc_find = "find_matches"
    /\ IF \E idx \in DOMAIN find_args.banco_transactions :
                LevantaNoBanco(find_args, idx)
       THEN /\ pc_find' = "raise"
            /\ UNCHANGED matches
       ELSE /\ matches' = [idx \in DOMAIN find_args.banco_transactions |->
                                MatchDoBanco(find_args, idx)]
            /\ pc_find' = "return"
    /\ UNCHANGED <<tolerance_days, tolerance_value, chamada, retorno, find_args>>

\* the entries of the lists: two dates three days apart and a text that is
\* no date; two amounts 1 % apart
DatasPix == {Texto("/", <<1, 6, 2025>>), Texto("/", <<4, 6, 2025>>), Texto("", <<>>)}
ValoresPix == {10000, 10100}
PixTransaction == [data : DatasPix, valor : ValoresPix]

SemArgumentos ==
    [banco_transactions |-> <<>>, recebimentos_transactions |-> <<>>,
     cartao_transactions |-> <<>>]

\* find_matches is not running
FindMatchesParado ==
    /\ find_args = SemArgumentos
    /\ matches = <<>>
    /\ pc_find = "parado"

-----------------------------------------------------------------------------

InitLocais ==
    /\ results = <<>>
    /\ usados_banco = {}
    /\ usados_receb = {}
    /\ idx_banco = 1
    /\ grupos_banco = <<>>
    /\ grupos_recebimentos = <<>>
    /\ idx_grupo = 1

Init ==
    /\ PixAuditorParado
    /\ DataAuditorParado
    /\ CartaoParado
    /\ FindMatchesParado
    /\ InitLocais
    /\ \E e \in Entradas :
        \/ /\ origem = "executar_auditoria"
           /\ arquivo_banco \in {Arquivo("ok", e[1]), Arquivo("ilegivel", <<>>)}
           /\ arquivo_receb \in {Arquivo("ok", e[2]), Arquivo("ilegivel", <<>>),
                                 Arquivo("linha", <<>>)}
           /\ banco_transactions = <<>>
           /\ recebimentos_transactions = <<>>
           /\ tolerancia_valor = TOLERANCIA_VALOR_PADRAO
           /\ tolerancia_dias = TOLERANCIA_DIAS_PADRAO
           /\ pc = "carrega"
        \/ /\ origem = "audit_pix_transactions"
           /\ arquivo_banco = SemArquivo
           /\ arquivo_receb = SemArquivo
           /\ banco_transactions = e[1]
           /\ recebimentos_transactions = e[2]
           /\ \E t \in Tolerancias : /\ tolerancia_valor = t[1]
                                     /\ tolerancia_dias = t[2]
           /\ pc = "passada1"

Next ==
    \/ AbortaLeitura /\ UNCHANGED <<varsPixAuditor, varsDataAuditor, varsCartao, varsFindMatches>>
    \/ CarregaDados /\ UNCHANGED <<varsPixAuditor, varsDataAuditor, varsCartao, varsFindMatches>>
    \/ PrimeiraPassada /\ UNCHANGED <<varsPixAuditor, varsDataAuditor, varsCartao, varsFindMatches>>
    \/ FimPrimeiraPassada /\ UNCHANGED <<varsPixAuditor, varsDataAuditor, varsCartao, varsFindMatches>>
    \/ SegundaPassada /\ UNCHANGED <<varsPixAuditor, varsDataAuditor, varsCartao, varsFindMatches>>
    \/ FimSegundaPassada /\ UNCHANGED <<varsPixAuditor, varsDataAuditor, varsCartao, varsFindMatches>>
    \/ TerceiraPassada /\ UNCHANGED <<varsPixAuditor, varsDataAuditor, varsCartao, varsFindMatches>>
    \/ QuartaPassada /\ UNCHANGED <<varsPixAuditor, varsDataAuditor, varsCartao, varsFindMatches>>

Spec == Init /\ [][Next]_vars

\* the caller calls audit_pix_transactions again with the lists of the call
\* that returned and tolerances of its choice: the locals of the new call are
\* new objects
NovaChamada ==
    /\ pc = "done"
    /\ origem = "audit_pix_transactions"
    /\ \E t \in Tolerancias : /\ tolerancia_valor' = t[1]
                              /\ tolerancia_dias' = t[2]
    /\ results' = <<>>
    /\ usados_banco' = {}
    /\ usados_receb' = {}
    /\ idx_banco' = 1
    /\ grupos_banco' = <<>>
    /\ grupos_recebimentos' = <<>>
    /\ idx_grupo' = 1
    /\ pc' = "passada1"
    /\ UNCHANGED <<origem, arquivo_banco, arquivo_receb, banco_transactions,
                   recebimentos_transactions>>

\* audit_pix_transactions called with short ledgers and tolerances of the
\* caller's choice, and called again after it returned
InitChamadas ==
    /\ PixAuditorParado
    /\ DataAuditorParado
    /\ CartaoParado
    /\ FindMatchesParado
    /\ InitLocais
    /\ origem = "audit_pix_transactions"
    /\ arquivo_banco = SemArquivo
    /\ arquivo_receb = SemArquivo
    /\ banco_transactions \in SeqAte(PixBanco, MaxBanco)
    /\ recebimentos_transactions \in SeqAte(PixReceb, MaxReceb)
    /\ \E t \in Tolerancias : /\ tolerancia_valor = t[1]
                              /\ tolerancia_dias = t[2]
    /\ pc = "passada1"

NextChamadas ==
    \/ PrimeiraPassada /\ UNCHANGED <<varsPixAuditor, varsDataAuditor, varsCartao, varsFindMatches>>
    \/ FimPrimeiraPassada /\ UNCHANGED <<varsPixAuditor, varsDataAuditor, varsCartao, varsFindMatches>>
    \/ SegundaPassada /\ UNCHANGED <<varsPixAuditor, varsDataAuditor, varsCartao, varsFindMatches>>
    \/ FimSegundaPassada /\ UNCHANGED <<varsPixAuditor, varsDataAuditor, varsCartao, varsFindMatches>>
    \/ TerceiraPassada /\ UNCHANGED <<varsPixAuditor, varsDataAuditor, varsCartao, varsFindMatches>>
    \/ QuartaPassada /\ UNCHANGED <<varsPixAuditor, varsDataAuditor, varsCartao, varsFindMatches>>
    \/ NovaChamada /\ UNCHANGED <<varsPixAuditor, varsDataAuditor, varsCartao, varsFindMatches>>

SpecChamadas == InitChamadas /\ [][NextChamadas]_vars

\* no reconciliation is running
ReconciliacaoParada ==
    /\ InitLocais
    /\ origem = "nenhuma"
    /\ arquivo_banco = SemArquivo
    /\ arquivo_receb = SemArquivo
    /\ banco_transactions = <<>>
    /\ recebimentos_transactions = <<>>
    /\ tolerancia_valor = TOLERANCIA_VALOR_PADRAO
    /\ tolerancia_dias = TOLERANCIA_DIAS_PADRAO
    /\ pc = "parado"

\* a PixAuditor is built with tolerances of the caller's choice and one of
\* its predicates is called
InitPixAuditor ==
    /\ ReconciliacaoParada
    /\ DataAuditorParado
    /\ CartaoParado
    /\ FindMatchesParado
    /\ tolerance_days \in ToleranceDays
    /\ tolerance_value \in ToleranceValues
    /\ retorno = Pendente
    /\ \/ \E val1, val2 \in Centavos : chamada = ChamadaValores(val1, val2)
       \/ \E date1, date2 \in DateStrs : chamada = ChamadaDatas(date1, date2)

NextPixAuditor ==
    \/ ValuesAreClose /\ UNCHANGED <<varsReconciliacao, varsDataAuditor, varsCartao, varsFindMatches>>
    \/ DatesAreClose /\ UNCHANGED <<varsReconciliacao, varsDataAuditor, varsCartao, varsFindMatches>>

SpecPixAuditor == InitPixAuditor /\ [][NextPixAuditor]_vars

\* a DataAuditor is built with a tolerance of the caller's choice, and
\* audit_data is called on two files or compare_numeric_values on two values
InitDataAuditor ==
    /\ ReconciliacaoParada
    /\ PixAuditorParado
    /\ CartaoParado
    /\ FindMatchesParado
    /\ LocaisDoAuditor
    /\ tolerance_percentage \in TolerancePercentages
    /\ \/ /\ \E c \in Configuracoes :
                /\ csv_file \in {DataFrame(c.csv_columns, rows) :
                                    rows \in SeqAte(LinhasCSV, MaxLinhas)}
                /\ generated_file \in {DataFrame(c.generated_columns, rows) :
                                    rows \in SeqAte(LinhasGeradas, MaxLinhas)}
                /\ field_mappings = c.field_mappings
                /\ key_field = c.key_field
          /\ valores = <<NaN, NaN>>
          /\ pc_auditor = "audit_data"
       \/ /\ csv_file = SemDataFrame
          /\ generated_file = SemDataFrame
          /\ field_mappings = <<>>
          /\ key_field = "No OS"
          /\ valores \in Celulas \X Celulas
          /\ pc_auditor = "compare_numeric_values"

NextDataAuditor ==
    \/ AuditDataInicio /\ UNCHANGED <<varsReconciliacao, varsPixAuditor, varsCartao, varsFindMatches>>
    \/ AuditDataLinha /\ UNCHANGED <<varsReconciliacao, varsPixAuditor, varsCartao, varsFindMatches>>
    \/ AuditDataResumo /\ UNCHANGED <<varsReconciliacao, varsPixAuditor, varsCartao, varsFindMatches>>
    \/ CompareNumericValues /\ UNCHANGED <<varsReconciliacao, varsPixAuditor, varsCartao, varsFindMatches>>

SpecDataAuditor == InitDataAuditor /\ [][NextDataAuditor]_vars

\* audit_cartao_transactions of one of the two modules is called on a frame of
\* card transactions and a frame of generated rows
InitCartao ==
    /\ ReconciliacaoParada
    /\ PixAuditorParado
    /\ DataAuditorParado
    /\ FindMatchesParado
    /\ modulo \in {"audit_cartao", "auditoria_unificada_completa"}
    /\ \E linhas_ \in SeqAte(TransacoesCartao, MaxCartao) :
       \E geradas \in SeqAte(LinhasGeradasCartao, MaxGerados) :
       \E columns \in {{"CARTAO", "PIX"}, {"PIX"}} :
            /\ cartao_args = [cartao_df |-> CartaoDf(linhas_),
                              generated_df |-> GeneratedDf(columns, geradas)]
            /\ summary_stats = EstatisticasIniciais(Len(linhas_))
    /\ cartao_results = <<>>
    /\ idx_cartao = 1
    /\ pc_cartao = "linhas"

NextCartao ==
    \/ AuditCartaoLinha /\ UNCHANGED <<varsReconciliacao, varsPixAuditor, varsDataAuditor, varsFindMatches>>
    \/ AuditCartaoUnificadaLinha /\ UNCHANGED <<varsReconciliacao, varsPixAuditor, varsDataAuditor, varsFindMatches>>
    \/ AuditCartaoFim /\ UNCHANGED <<varsReconciliacao, varsPixAuditor, varsDataAuditor, varsFindMatches>>

SpecCartao == InitCartao /\ [][NextCartao]_vars

\* a PixAuditor is built with tolerances of the caller's choice and
\* find_matches is called on three lists
InitFindMatches ==
    /\ ReconciliacaoParada
    /\ DataAuditorParado
    /\ CartaoParado
    /\ tolerance_days \in {3, 0}
    /\ tolerance_value \in {Fracao(1, 100), Fracao(0, 1)}
    /\ chamada = SemChamada
    /\ retorno = Pendente
    /\ \E banco \in SeqAte(PixTransaction, MaxBancoPix) :
       \E receb \in SeqAte(PixTransaction, MaxRecebPix) :
       \E cartao \in SeqAte(PixTransaction, MaxCartaoPix) :
            find_args = [banco_transactions |-> banco,
                         recebimentos_transactions |-> receb,
                         cartao_transactions |-> cartao]
    /\ matches = <<>>
    /\ pc_find = "find_matches"

NextFindMatches ==
    \/ FindMatches /\ UNCHANGED <<varsReconciliacao, varsDataAuditor, varsCartao>>

SpecFindMatches == InitFindMatches /\ [][NextFindMatches]_vars

-----------------------------------------------------------------------------
(* Vocabulary of the properties *)

Encontrada(status) ==
    status \in {ENCONTRADA, ENCONTRADA_ESTENDIDA, ENCONTRADA_VALOR_SOMADO,
                ENCONTRADA_RECEBIMENTOS_SOMADOS}

\* the records a bank entry, a receivables entry is part of
RegistrosDoBanco(i) == {k \in DOMAIN results : i \in SeqParaConj(results[k].bancos)}
RegistrosDoReceb(j) == {k \in DOMAIN results : j \in SeqParaConj(results[k].recebs)}

EncontradosDoBanco(i) == {k \in RegistrosDoBanco(i) : Encontrada(results[k].status)}
EncontradosDoReceb(j) == {k \in RegistrosDoReceb(j) : Encontrada(results[k].status)}
SemDoBancoEm(i) == {k \in RegistrosDoBanco(i) : results[k].status = SEM_CORRESPONDENCIA}
SemDoRecebEm(j) == {k \in RegistrosDoReceb(j) : results[k].status = SEM_CORRESPONDENCIA}

Terminou == pc = "done"

-----------------------------------------------------------------------------
\* C1: when the run is over, every bank entry is part of exactly one result
\* record (the original claim; the code reports the members of a bank group
\* that matched nothing a second time)
C1_CadaBancoEmUmRegistro ==
    Terminou =>
        \A i \in DOMAIN banco_transactions : Cardinality(RegistrosDoBanco(i)) = 1

\* C2: no receivables entry is ever part of two result records, and when the
\* run is over every receivables entry is part of exactly one: an individual
\* or bank-summed match, one summed receivables group, or one SEM
\* CORRESPONDENCIA record
C2_CadaRecebimentoEmUmRegistro ==
    /\ \A j \in DOMAIN recebimentos_transactions :
            Cardinality(RegistrosDoReceb(j)) <= 1
    /\ Terminou =>
        \A j \in DOMAIN recebimentos_transactions :
            /\ Cardinality(RegistrosDoReceb(j)) = 1
            /\ j \in usados_receb <=> EncontradosDoReceb(j) # {}

\* C2 witness: a finished run that put one receivable in an individual match,
\* and left another to a SEM CORRESPONDENCIA record
C2_Witness ==
    /\ Terminou
    /\ \E j1, j2 \in DOMAIN recebimentos_transactions :
            /\ \E k \in EncontradosDoReceb(j1) : results[k].status = ENCONTRADA
            /\ SemDoRecebEm(j2) # {}

\* C3: usados_banco and usados_receb only grow; a record with a CORRESPONDENCIA
\* ENCONTRADA status is built only from entries not consumed before; and no
\* entry is part of two such records
C3_CadaTransacaoUsadaUmaVez ==
    [][ /\ usados_banco \subseteq usados_banco'
        /\ usados_receb \subseteq usados_receb'
        /\ \A k \in (DOMAIN results') \ (DOMAIN results) :
                Encontrada(results'[k].status) =>
                    /\ SeqParaConj(results'[k].bancos) \cap usados_banco = {}
                    /\ SeqParaConj(results'[k].recebs) \cap usados_receb = {}
                    /\ SeqParaConj(results'[k].bancos) \subseteq usados_banco'
                    /\ SeqParaConj(results'[k].recebs) \subseteq usados_receb'
        /\ \A i \in DOMAIN banco_transactions' :
                Cardinality(EncontradosDoBanco(i)') <= 1
        /\ \A j \in DOMAIN recebimentos_transactions' :
                Cardinality(EncontradosDoReceb(j)') <= 1
      ]_vars

\* C3 witness: a finished run with an individual match from the first pass
\* and a summed match from a later pass
C3_Witness ==
    /\ Terminou
    /\ \E k1, k2 \in DOMAIN results :
            /\ results[k1].status \in {ENCONTRADA, ENCONTRADA_ESTENDIDA}
            /\ results[k2].status \in {ENCONTRADA_VALOR_SOMADO,
                                       ENCONTRADA_RECEBIMENTOS_SOMADOS}

\* C4: when the run is over, an entry no pass consumed is part of exactly one
\* SEM CORRESPONDENCIA record and of no other record (the original claim; it
\* fails for unmatched bank entries that share sender and date)
C4_ResiduoEmUmRegistro ==
    Terminou =>
        /\ \A i \in (DOMAIN banco_transactions) \ usados_banco :
                /\ Cardinality(SemDoBancoEm(i)) = 1
                /\ EncontradosDoBanco(i) = {}
        /\ \A j \in (DOMAIN recebimentos_transactions) \ usados_receb :
                /\ Cardinality(SemDoRecebEm(j)) = 1
                /\ EncontradosDoReceb(j) = {}

-----------------------------------------------------------------------------
(* The first pass, read off the result list *)

Individuais == {k \in DOMAIN results : results[k].obs = "individual"}

\* the first loop has dealt with bank probe b
Processado(b) ==
    \/ pc \in {"passada2", "passada3", "done"}
    \/ pc = "passada1" /\ b < idx_banco

\* the receivables the probes before b consumed
ConsumidosAntes(b) ==
    {results[k].recebs[1] : k \in {i \in Individuais : results[i].bancos[1] < b}}

DiasEntre(data_a, data_b) == Abs(ParseData(data_a) - ParseData(data_b))

\* the receivables probe b could take in its first attempt
CandidatosDiretos(b) ==
    {j \in (DOMAIN recebimentos_transactions) \ ConsumidosAntes(b) :
        /\ DataOK(banco_transactions[b].data, recebimentos_transactions[j].data,
                  tolerancia_dias)
        /\ Abs(banco_transactions[b].valor - recebimentos_transactions[j].valor)
                <= tolerancia_valor}

\* the receivables of exactly the probe's amount, dated more than the default
\* window and at most 15 days away
CandidatosEstendidos(b) ==
    {j \in (DOMAIN recebimentos_transactions) \ ConsumidosAntes(b) :
        /\ banco_transactions[b].valor = recebimentos_transactions[j].valor
        /\ ParseData(banco_transactions[b].data) # Falha
        /\ ParseData(recebimentos_transactions[j].data) # Falha
        /\ DiasEntre(banco_transactions[b].data, recebimentos_transactions[j].data)
                > tolerancia_dias
        /\ DiasEntre(banco_transactions[b].data, recebimentos_transactions[j].data)
                <= TOLERANCIA_ESTENDIDA}

\* C6: a bank probe with receivables that satisfy the date and amount
\* predicates, not taken by an earlier probe, is matched to the one lowest in
\* the receivables ledger; and the probes are served in bank-ledger order
C6_PrimeiroCandidato ==
    /\ \A b \in DOMAIN banco_transactions :
            (Processado(b) /\ CandidatosDiretos(b) # {}) =>
                \E k \in DOMAIN results :
                    results[k] = Registro(ENCONTRADA, "individual", <<b>>,
                                          <<Min(CandidatosDiretos(b))>>)
    /\ \A k1, k2 \in Individuais :
            k1 < k2 => results[k1].bancos[1] < results[k2].bancos[1]

\* C6 witness: a probe that was served after an earlier probe took its
\* receivable, and that had two candidates left to choose from
C6_Witness ==
    \E b \in DOMAIN banco_transactions :
        /\ Processado(b)
        /\ ConsumidosAntes(b) # {}
        /\ Cardinality(CandidatosDiretos(b)) >= 2

\* C7: a bank probe with no candidate for its first attempt and with a
\* receivable of exactly its amount between the default window and 15 days
\* away is matched to the first such receivable, with the extended status
\* (the original claim)
C7_RecursoEstendido ==
    \A b \in DOMAIN banco_transactions :
        (Processado(b) /\ CandidatosDiretos(b) = {} /\ CandidatosEstendidos(b) # {}) =>
            \E k \in DOMAIN results :
                results[k] = Registro(ENCONTRADA_ESTENDIDA, "individual", <<b>>,
                                      <<Min(CandidatosEstendidos(b))>>)

-----------------------------------------------------------------------------
(* The second pass, read off the result list *)

\* the bank entries the first pass left unused
SobrasDoBanco ==
    {i \in DOMAIN banco_transactions :
        \A k \in Individuais : results[k].bancos[1] # i}

\* the bank entries left unused that share sender and date string with i
GrupoDe(i) ==
    {m \in SobrasDoBanco :
        /\ banco_transactions[m].remetente = banco_transactions[i].remetente
        /\ banco_transactions[m].data = banco_transactions[i].data}

SomaDoGrupo(i) == SomaValores(banco_transactions, Ordenado(GrupoDe(i)), 1)

\* the second loop has dealt with the group of i
GrupoProcessado(i) ==
    \/ pc \in {"passada3", "done"}
    \/ /\ pc = "passada2"
       /\ \E g \in 1..(idx_grupo - 1) : grupos_banco[g][1] = Min(GrupoDe(i))

\* the receivables consumed before the group of i was tried: by the first
\* pass, and by the groups that come before it in bank-ledger order
ConsumidosAntesDoGrupo(i) ==
    {results[k].recebs[1] : k \in {n \in DOMAIN results :
        \/ n \in Individuais
        \/ /\ results[n].status = ENCONTRADA_VALOR_SOMADO
           /\ results[n].bancos[1] < Min(GrupoDe(i))}}

\* the receivables the summed amount of the group of i could take
CandidatosDoGrupo(i) ==
    {j \in (DOMAIN recebimentos_transactions) \ ConsumidosAntesDoGrupo(i) :
        /\ DataOK(banco_transactions[i].data, recebimentos_transactions[j].data,
                  tolerancia_dias)
        /\ Abs(SomaDoGrupo(i) - recebimentos_transactions[j].valor)
                <= tolerancia_valor}

\* the ledgers of the example: 50 and 70 of one sender and date, 120 on that date
ExemploSoma ==
    /\ Len(banco_transactions) = 2
    /\ Len(recebimentos_transactions) = 1
    /\ banco_transactions[1].valor = 50
    /\ banco_transactions[2].valor = 70
    /\ recebimentos_transactions[1].valor = 120
    /\ banco_transactions[1].remetente = banco_transactions[2].remetente
    /\ banco_transactions[1].data = banco_transactions[2].data
    /\ banco_transactions[1].data = recebimentos_transactions[1].data

\* C8: two or more bank entries the first pass left unused, of one sender and
\* date, whose summed amount is within the amount tolerance of a receivable
\* still unused when the group is tried and dated within the default window,
\* give exactly one VALOR SOMADO record, of the whole group with the first
\* such receivable, and all of them are consumed; and with the default
\* tolerances the example's ledgers give that one record and nothing else
C8_SomaDoGrupoBanco ==
    /\ \A i \in SobrasDoBanco :
            (/\ GrupoProcessado(i)
             /\ Cardinality(GrupoDe(i)) >= 2
             /\ CandidatosDoGrupo(i) # {}) =>
                /\ Cardinality({k \in RegistrosDoBanco(i) :
                        results[k].status = ENCONTRADA_VALOR_SOMADO}) = 1
                /\ \E k \in DOMAIN results :
                        results[k] = Registro(ENCONTRADA_VALOR_SOMADO, "valor somado",
                                              Ordenado(GrupoDe(i)),
                                              <<Min(CandidatosDoGrupo(i))>>)
                /\ GrupoDe(i) \subseteq usados_banco
                /\ Min(CandidatosDoGrupo(i)) \in usados_receb
    /\ (/\ Terminou
        /\ ExemploSoma
        /\ tolerancia_valor = TOLERANCIA_VALOR_PADRAO
        /\ tolerancia_dias = TOLERANCIA_DIAS_PADRAO) =>
            results = <<Registro(ENCONTRADA_VALOR_SOMADO, "valor somado",
                                 <<1, 2>>, <<1>>)>>

\* C8 witness: a finished run in which the second of two groups of bank
\* entries took a receivable with its summed amount
C8_Witness ==
    /\ Terminou
    /\ \E i \in SobrasDoBanco :
            /\ Cardinality(GrupoDe(i)) >= 2
            /\ CandidatosDoGrupo(i) # {}
            /\ Min(GrupoDe(i)) > 1
            /\ \E m \in SobrasDoBanco : Cardinality(GrupoDe(m)) >= 2 /\ m < Min(GrupoDe(i))

\* the example of C8, run to its end through executar_auditoria
C8_Exemplo == Terminou /\ ExemploSoma /\ origem = "executar_auditoria"

-----------------------------------------------------------------------------
\* C9: when the bank file or the receivables file cannot be loaded, the run
\* reports no entry of the other ledger as SEM CORRESPONDENCIA (the original
\* claim)
C9_FalhaDeLeituraAborta ==
    (origem = "executar_auditoria"
        /\ (arquivo_banco.estado # "ok" \/ arquivo_receb.estado # "ok")) =>
            \A k \in DOMAIN results : results[k].status # SEM_CORRESPONDENCIA

\* C10: with a negative tolerance no iteration of any pass runs and no record
\* is produced (the original claim)
C10_ToleranciaNegativaRejeitada ==
    (tolerancia_dias < 0 \/ tolerancia_valor < 0) =>
        /\ idx_banco = 1
        /\ idx_grupo = 1
        /\ results = <<>>

-----------------------------------------------------------------------------
\* C14: no step of audit_pix_transactions changes the two lists it was given
\* or an entry of them, and a call made with the same lists after the run
\* starts from what a first call with them starts from (under SpecChamadas)
C14_EntradasIntactas ==
    [][/\ banco_transactions' = banco_transactions
       /\ recebimentos_transactions' = recebimentos_transactions
       /\ (pc = "done" /\ pc' = "passada1") =>
            /\ results' = <<>>
            /\ usados_banco' = {}
            /\ usados_receb' = {}
            /\ idx_banco' = 1
            /\ idx_grupo' = 1]_vars

\* C14 witness: a run is over that consumed entries of both lists and left
\* an entry of each unconsumed
C14_Witness ==
    /\ Terminou
    /\ usados_banco # {}
    /\ usados_receb # {}
    /\ usados_banco # DOMAIN banco_transactions
    /\ usados_receb # DOMAIN recebimentos_transactions

-----------------------------------------------------------------------------
(* Properties of PixAuditor, under SpecPixAuditor *)

ChamouValores == chamada.metodo = "values_are_close" /\ retorno # Pendente
ChamouDatas == chamada.metodo = "dates_are_close" /\ retorno # Pendente

\* C11: with tolerance_value = 0.01, values_are_close is true for 100.00 and
\* 101.00 and false for 100.00 and 101.01, in either argument order (the
\* original claim; the code divides by the larger amount, and 1.01 / 101.01
\* is below 0.01)
C11_LimiteDaTolerancia ==
    (ChamouValores /\ tolerance_value = Fracao(1, 100)) =>
        /\ {chamada.val1, chamada.val2} = {10000, 10100} => retorno = Retornou(TRUE)
        /\ {chamada.val1, chamada.val2} = {10000, 10101} => retorno = Retornou(FALSE)

\* C12: for every tolerance values_are_close returns, and does not raise; it
\* returns true for two zero amounts and false when exactly one is zero
C12_Zeros ==
    ChamouValores =>
        /\ retorno.estado = "retornou"
        /\ (chamada.val1 = 0 /\ chamada.val2 = 0) => retorno.valor
        /\ ((chamada.val1 = 0) # (chamada.val2 = 0)) => ~retorno.valor

\* C12 witness: the call returned for a zero and a positive amount under a
\* tolerance of 200 %, which the quotient 1 would satisfy
C12_Witness ==
    /\ ChamouValores
    /\ chamada.val1 = 0
    /\ chamada.val2 > 0
    /\ tolerance_value = Fracao(2, 1)

\* the calendar, written down by hand: the day each date argument names,
\* counted from 01/01/2024, and 0 for an argument that is no date in any
\* accepted format
DiaDoCalendario(date_str) ==
    CASE date_str = Texto("/", <<1, 6, 2025>>) -> 518
      [] date_str = Texto("-", <<1, 6, 2025>>) -> 518
      [] date_str = Texto("-", <<2025, 6, 3>>) -> 520
      [] date_str = Texto("/", <<4, 6, 2025>>) -> 521
      [] date_str = Texto("/", <<28, 2, 2024>>) -> 59
      [] date_str = Texto("/", <<1, 3, 2024>>) -> 61
      [] date_str = Texto("/", <<31, 12, 2024>>) -> 366
      [] date_str = Texto("-", <<2025, 1, 2>>) -> 368
      [] OTHER -> 0

\* C13: dates_are_close returns true iff both arguments are dates in an
\* accepted format and lie at most tolerance_days days apart; it returns
\* false, and does not raise, when an argument is not such a date
C13_DatasProximas ==
    ChamouDatas =>
        LET dia1 == DiaDoCalendario(chamada.date1)
            dia2 == DiaDoCalendario(chamada.date2)
        IN  retorno = Retornou(/\ dia1 # 0
                               /\ dia2 # 0
                               /\ Abs(dia1 - dia2) <= tolerance_days)

\* C13 witness: the call returned for 29/02/2025, which matches the first
\* format and names no day, against itself
C13_Witness ==
    /\ ChamouDatas
    /\ chamada.date1 = Texto("/", <<29, 2, 2025>>)
    /\ chamada.date2 = chamada.date1
    /\ tolerance_days >= 0

-----------------------------------------------------------------------------
(* Properties of DataAuditor, under SpecDataAuditor *)

AuditDataRetornou == pc_auditor = "retornou" /\ csv_file # SemDataFrame
CompareRetornou == pc_auditor = "retornou" /\ csv_file = SemDataFrame

NumCampos == Len(field_mappings)

\* the results of the i-th CSV row, and the one of its k-th mapped field
ResultadosDaLinha(i) == SubSeq(all_results, (i - 1) * NumCampos + 1, i * NumCampos)
ResultadoDoCampo(i, k) == all_results[(i - 1) * NumCampos + k]

\* the key of the i-th CSV row and the generated rows that have it
ChaveDaLinha(i) == Celula(csv_df.columns, csv_df.rows[i], normalized_key_field)
GeradasDaLinha(i) ==
    {j \in DOMAIN generated_df.rows :
        Celula(generated_df.columns, generated_df.rows[j], normalized_key_field)
            = ChaveDaLinha(i)}

NOTAS_DE_CAMPO_AUSENTE ==
    {"campo nao encontrado no CSV", "campo nao encontrado nos dados gerados"}

\* C15: audit_data emits len(field_mappings) results for every CSV row, all of
\* them failing with the not-found note when no generated row has the key, so
\* that total_fields_checked = total_records x len(field_mappings)
C15_UmVereditoPorCampo ==
    /\ pc_auditor = "linhas" => Len(all_results) = (linha - 1) * NumCampos
    /\ AuditDataRetornou =>
        /\ Len(all_results) = Len(csv_file.rows) * NumCampos
        /\ summary.total_records = Len(csv_file.rows)
        /\ summary.total_fields_checked = summary.total_records * NumCampos
        /\ \A i \in DOMAIN csv_df.rows : GeradasDaLinha(i) = {} =>
                \A k \in 1..NumCampos :
                    /\ ~ResultadoDoCampo(i, k).is_match
                    /\ ResultadoDoCampo(i, k).notes
                            = "registro nao encontrado nos dados gerados"

\* C15 witness: a finished audit of two CSV rows, the key of one found and the
\* key of the other not, with a mapped field that the generated data lacks
C15_Witness ==
    /\ AuditDataRetornou
    /\ Len(csv_df.rows) = 2
    /\ GeradasDaLinha(1) = {}
    /\ GeradasDaLinha(2) # {}
    /\ NumCampos = 3
    /\ \E k \in 1..NumCampos : Posicao(generated_df.columns, field_mappings[k][2]) = 0

\* the value of the i-th CSV row under a column of the CSV file, and of the
\* j-th generated row under a column of the generated file
ValorCSV(i, csv_field) == Celula(csv_file.columns, csv_file.rows[i], csv_field)
ValorGerado(j, generated_field) ==
    Celula(generated_file.columns, generated_file.rows[j], generated_field)

\* the mapping names columns of the two files
MapeamentoDosArquivos ==
    \A k \in 1..NumCampos :
        /\ Posicao(csv_file.columns, field_mappings[k][1]) # 0
        /\ Posicao(generated_file.columns, field_mappings[k][2]) # 0

\* C16: when the mapping keys and the key field are columns of the CSV, every
\* CSV row has a generated row of its key and every mapped pair of values is
\* equal, every record and every field is counted as matching (the original
\* claim; the code looks the mapping keys up after it renamed the columns)
C16_CoincidenciaPerfeita ==
    (/\ AuditDataRetornou
     /\ MapeamentoDosArquivos
     /\ Posicao(csv_file.columns, key_field) # 0
     /\ \A i \in DOMAIN csv_file.rows :
            /\ GeradasDaLinha(i) # {}
            /\ \A j \in GeradasDaLinha(i) : \A k \in 1..NumCampos :
                    ValorCSV(i, field_mappings[k][1])
                        = ValorGerado(j, field_mappings[k][2])) =>
        /\ summary.matching_records = summary.total_records
        /\ summary.mismatched_records = 0
        /\ summary.matching_fields = summary.total_fields_checked

\* the two amounts differ by more than the tolerated fraction of the larger
\* of their magnitudes
DiferemAlemDaTolerancia(a, b) ==
    Abs(a - b) * tolerance_percentage.den
        > tolerance_percentage.num * Max({Abs(a), Abs(b)})

\* C17: for a CSV row whose key a generated row has and a mapped amount field
\* whose two values differ by more than the tolerance, the result of the field
\* has is_match = false and a percentage_diff (the original claim)
C17_DiferencaRelatada ==
    AuditDataRetornou /\ MapeamentoDosArquivos =>
        \A i \in DOMAIN csv_file.rows : \A k \in 1..NumCampos :
            (/\ GeradasDaLinha(i) # {}
             /\ CampoDeValor(field_mappings[k][2])
             /\ DiferemAlemDaTolerancia(
                    ValorCSV(i, field_mappings[k][1]).n,
                    ValorGerado(Min(GeradasDaLinha(i)), field_mappings[k][2]).n)) =>
                /\ ~ResultadoDoCampo(i, k).is_match
                /\ ResultadoDoCampo(i, k).percentage_diff.some

\* C18: audit_record does not raise for a mapped field that a row lacks: the
\* field gets one failing result with a note, and the fields after it are
\* audited
C18_CampoAusenteNaoLevanta ==
    /\ pc_auditor = "AuditError" => linha = 1 /\ all_results = <<>>
    /\ csv_file # SemDataFrame =>
        \A i \in 1..(Len(all_results) \div NumCampos) : GeradasDaLinha(i) # {} =>
            \A k \in 1..NumCampos :
                LET ausente_csv == Posicao(csv_df.columns, field_mappings[k][1]) = 0
                    ausente_gerado ==
                        Posicao(generated_df.columns, field_mappings[k][2]) = 0
                    r == ResultadoDoCampo(i, k)
                IN  /\ ausente_csv =>
                        ~r.is_match /\ r.notes = "campo nao encontrado no CSV"
                    /\ ~ausente_csv /\ ausente_gerado =>
                        /\ ~r.is_match
                        /\ r.notes = "campo nao encontrado nos dados gerados"
                    /\ ~ausente_csv /\ ~ausente_gerado =>
                        r.notes \notin NOTAS_DE_CAMPO_AUSENTE

\* C18 witness: a finished audit with a row whose first mapped field is in
\* neither file and whose second mapped field was compared
C18_Witness ==
    /\ AuditDataRetornou
    /\ Len(csv_df.rows) >= 1
    /\ GeradasDaLinha(1) # {}
    /\ NumCampos = 2
    /\ Posicao(csv_df.columns, field_mappings[1][1]) = 0
    /\ ResultadoDoCampo(1, 2).percentage_diff.some

\* C19: with tolerance 0 compare_numeric_values reports a match only for two
\* equal numbers, zero and negative ones included, and with a positive
\* tolerance no match when the difference exceeds that fraction of the larger
\* value (the original claim; the code takes the percentage to be 0 when the
\* larger value is not positive)
C19_ToleranciaExata ==
    (/\ CompareRetornou
     /\ valores[1].tipo = "num"
     /\ valores[2].tipo = "num") =>
        LET val1 == valores[1].n
            val2 == valores[2].n
        IN  /\ tolerance_percentage.num = 0 =>
                (all_results[1].is_match => val1 = val2)
            /\ (/\ tolerance_percentage.num > 0
                /\ Abs(val1 - val2) * tolerance_percentage.den
                        > tolerance_percentage.num * Max({val1, val2})) =>
                    ~all_results[1].is_match

\* the generated rows whose key a CSV row has
GeradasDoCSV ==
    DataFrame(generated_df.columns,
              SelectSeq(generated_df.rows,
                        LAMBDA row : \E i \in DOMAIN csv_df.rows :
                            Celula(generated_df.columns, row, normalized_key_field)
                                = ChaveDaLinha(i)))

\* the results of the CSV rows from the i-th on against the frame generated
RECURSIVE ResultadosDesde(_, _)
ResultadosDesde(generated, i) ==
    IF i > Len(csv_df.rows) THEN <<>>
    ELSE LET csv_row == csv_df.rows[i]
             matching_generated ==
                LinhasDaChave(generated, normalized_key_field, ChaveDaLinha(i))
         IN  (IF matching_generated = <<>>
              THEN NaoEncontrado(csv_df.columns, csv_row, field_mappings)
              ELSE audit_record(csv_df.columns, csv_row, generated.columns,
                                matching_generated[1], field_mappings).results)
             \o ResultadosDesde(generated, i + 1)

\* C20: the generated rows whose key is in no CSV row change nothing: the
\* results and the counters are those of an audit against the other generated
\* rows alone, and total_records is the number of CSV rows
C20_SoLinhasDoCSV ==
    AuditDataRetornou =>
        /\ all_results = ResultadosDesde(GeradasDoCSV, 1)
        /\ summary.total_records = Len(csv_file.rows)
        /\ summary.matching_records + summary.mismatched_records
                = Len(csv_file.rows)
        /\ summary.matching_records =
                Cardinality({i \in DOMAIN csv_df.rows :
                    \A k \in 1..NumCampos : ResultadoDoCampo(i, k).is_match})
        /\ summary.total_fields_checked = Len(all_results)
        /\ summary.matching_fields = Conta(all_results)
        /\ summary.mismatched_fields = Len(all_results) - Conta(all_results)

\* C20 witness: a finished audit of a CSV row that matched, with a generated
\* row before it whose key is in no CSV row
C20_Witness ==
    /\ AuditDataRetornou
    /\ Len(generated_df.rows) = 2
    /\ GeradasDoCSV.rows = <<generated_df.rows[2]>>
    /\ summary.matching_records >= 1

-----------------------------------------------------------------------------
(* The order of the attempts, unparsable dates, and the statuses *)

\* the first receivable outside usados that passes probe b's first attempt
PrimeiroDireto(b, usados) ==
    LET c == {j \in (DOMAIN recebimentos_transactions) \ usados :
                /\ DataOK(banco_transactions[b].data,
                          recebimentos_transactions[j].data, tolerancia_dias)
                /\ Abs(banco_transactions[b].valor
                        - recebimentos_transactions[j].valor) <= tolerancia_valor}
    IN  IF c = {} THEN Nenhum ELSE Min(c)

\* the first receivable outside usados that passes probe b's second attempt
PrimeiroEstendido(b, usados) ==
    LET c == {j \in (DOMAIN recebimentos_transactions) \ usados :
                /\ DataOK(banco_transactions[b].data,
                          recebimentos_transactions[j].data, TOLERANCIA_ESTENDIDA)
                /\ banco_transactions[b].valor = recebimentos_transactions[j].valor}
    IN  IF c = {} THEN Nenhum ELSE Min(c)

RECURSIVE FaseDireta(_, _)
\* a pass of the first attempt alone over the bank probes from b on; pares is
\* the set of <<status, bank position, receivable position>> matched so far
FaseDireta(b, pares) ==
    IF b > Len(banco_transactions) THEN pares
    ELSE LET j == PrimeiroDireto(b, {p[3] : p \in pares}) IN
         IF j = Nenhum THEN FaseDireta(b + 1, pares)
         ELSE FaseDireta(b + 1, pares \cup {<<ENCONTRADA, b, j>>})

RECURSIVE FaseEstendida(_, _)
\* a pass of the second attempt over the probes that pares leaves unmatched
FaseEstendida(b, pares) ==
    IF b > Len(banco_transactions) THEN pares
    ELSE IF b \in {p[2] : p \in pares} THEN FaseEstendida(b + 1, pares)
    ELSE LET j == PrimeiroEstendido(b, {p[3] : p \in pares}) IN
         IF j = Nenhum THEN FaseEstendida(b + 1, pares)
         ELSE FaseEstendida(b + 1,
                pares \cup {<<StatusIndividual(TOLERANCIA_ESTENDIDA), b, j>>})

\* the two-phase procedure: every probe's first attempt, then the second
\* attempt of the probes left over
DuasFases == FaseEstendida(1, FaseDireta(1, {}))

\* the individual matches of the run
ParesIndividuais ==
    {<<results[k].status, results[k].bancos[1], results[k].recebs[1]>> :
        k \in Individuais}

\* C21: the individual matches of a run are those of the two-phase procedure,
\* a complete pass of first attempts followed by a pass of second attempts
\* over the probes still unmatched (the original claim; the code makes a
\* probe's second attempt before the next probe's first attempt)
C21_DiretaAntesDaEstendida ==
    pc \in {"passada2", "passada3", "done"} => ParesIndividuais = DuasFases

\* every entry of record r has a date that parses as DD/MM/YYYY
DatasValidas(r) ==
    /\ \A n \in DOMAIN r.bancos :
            ParseData(banco_transactions[r.bancos[n]].data) # Falha
    /\ \A n \in DOMAIN r.recebs :
            ParseData(recebimentos_transactions[r.recebs[n]].data) # Falha

\* C22: no entry whose date does not parse is part of a match, individual,
\* extended or summed (the original claim; the code compares the two date
\* strings when a date does not parse)
C22_DataInvalidaNaoCasa ==
    \A k \in DOMAIN results : Encontrada(results[k].status) => DatasValidas(results[k])

\* C23: with a non-negative amount tolerance, a record of the extended status
\* whose dates parse pairs one bank and one receivables entry of exactly equal
\* amounts, more than tolerancia_dias and at most 15 days apart, and the pair
\* does not pass the first attempt's predicates
C23_EstendidaCorreta ==
    tolerancia_valor >= 0 =>
        \A k \in DOMAIN results :
            (results[k].status = ENCONTRADA_ESTENDIDA /\ DatasValidas(results[k])) =>
                /\ Len(results[k].bancos) = 1
                /\ Len(results[k].recebs) = 1
                /\ LET banco_tx == banco_transactions[results[k].bancos[1]]
                       rec_tx == recebimentos_transactions[results[k].recebs[1]]
                   IN  /\ banco_tx.valor = rec_tx.valor
                       /\ DiasEntre(banco_tx.data, rec_tx.data) > tolerancia_dias
                       /\ DiasEntre(banco_tx.data, rec_tx.data) <= 15
                       /\ ~(/\ DiasEntre(banco_tx.data, rec_tx.data) <= tolerancia_dias
                            /\ Abs(banco_tx.valor - rec_tx.valor) <= tolerancia_valor)

\* C23 witness: a finished run with non-negative tolerances that has a record
\* of the extended status between two entries whose dates parse
C23_Witness ==
    /\ Terminou
    /\ tolerancia_valor >= 0
    /\ tolerancia_dias >= 0
    /\ \E k \in DOMAIN results :
            results[k].status = ENCONTRADA_ESTENDIDA /\ DatasValidas(results[k])

\* C24: a record of the plain status pairs one bank and one receivables entry
\* at most tolerancia_dias days apart whose amounts differ by at most
\* tolerancia_valor (the original claim; two equal date strings that do not
\* parse have no day gap and are matched)
C24_DiretaCorreta ==
    \A k \in DOMAIN results : results[k].status = ENCONTRADA =>
        /\ Len(results[k].bancos) = 1
        /\ Len(results[k].recebs) = 1
        /\ DatasValidas(results[k])
        /\ LET banco_tx == banco_transactions[results[k].bancos[1]]
               rec_tx == recebimentos_transactions[results[k].recebs[1]]
           IN  /\ DiasEntre(banco_tx.data, rec_tx.data) <= tolerancia_dias
               /\ Abs(banco_tx.valor - rec_tx.valor) <= tolerancia_valor

\* the group the second or third loop is about to try has several members and
\* its summed amount passes the predicates with no unused entry of the other
\* side
FalhaDoGrupoBanco ==
    /\ pc = "passada2"
    /\ idx_grupo <= Len(grupos_banco)
    /\ Len(grupos_banco[idx_grupo]) > 1
    /\ \A j \in (DOMAIN recebimentos_transactions) \ usados_receb :
        ~(/\ DataOK(banco_transactions[grupos_banco[idx_grupo][1]].data,
                    recebimentos_transactions[j].data, tolerancia_dias)
          /\ Abs(SomaValores(banco_transactions, grupos_banco[idx_grupo], 1)
                    - recebimentos_transactions[j].valor) <= tolerancia_valor)

FalhaDoGrupoReceb ==
    /\ pc = "passada3"
    /\ idx_grupo <= Len(grupos_recebimentos)
    /\ Len(grupos_recebimentos[idx_grupo]) > 1
    /\ \A i \in (DOMAIN banco_transactions) \ usados_banco :
        ~(/\ DataOK(banco_transactions[i].data,
                    recebimentos_transactions[grupos_recebimentos[idx_grupo][1]].data,
                    tolerancia_dias)
          /\ Abs(SomaValores(recebimentos_transactions,
                             grupos_recebimentos[idx_grupo], 1)
                    - banco_transactions[i].valor) <= tolerancia_valor)

\* C25: the attempt of a group of several members whose summed amount matches
\* no unused entry of the other side leaves usados_banco and usados_receb as
\* they were, so the members and the other side's entries stay unused
C25_FalhaNaoConsome ==
    [][(FalhaDoGrupoBanco \/ FalhaDoGrupoReceb) /\ idx_grupo' = idx_grupo + 1 =>
            /\ usados_banco' = usados_banco
            /\ usados_receb' = usados_receb
            /\ pc = "passada2" =>
                    SeqParaConj(grupos_banco[idx_grupo]) \cap usados_banco' = {}
            /\ pc = "passada3" =>
                    SeqParaConj(grupos_recebimentos[idx_grupo]) \cap usados_receb' = {}]_vars

\* C25 witness: a bank group failed in the second loop, and the third loop
\* then matched one of its members to a summed receivables group
C25_Witness ==
    \E k1, k2 \in DOMAIN results :
        /\ k1 < k2
        /\ results[k1].obs = "banco sem individual ou somada"
        /\ results[k2].status = ENCONTRADA_RECEBIMENTOS_SOMADOS
        /\ results[k2].bancos = results[k1].bancos

\* C26: a record of a summed status sums at least two entries of the grouped
\* side and has one entry of the other side; the bank entries of a summed bank
\* group have one sender and one date, the receivables of a summed receivables
\* group have one date
C26_GruposDeUmNaoSomam ==
    \A k \in DOMAIN results :
        /\ results[k].status = ENCONTRADA_VALOR_SOMADO =>
            /\ Len(results[k].bancos) >= 2
            /\ Len(results[k].recebs) = 1
            /\ \A m, n \in DOMAIN results[k].bancos :
                /\ banco_transactions[results[k].bancos[m]].remetente
                        = banco_transactions[results[k].bancos[n]].remetente
                /\ banco_transactions[results[k].bancos[m]].data
                        = banco_transactions[results[k].bancos[n]].data
        /\ results[k].status = ENCONTRADA_RECEBIMENTOS_SOMADOS =>
            /\ Len(results[k].recebs) >= 2
            /\ Len(results[k].bancos) = 1
            /\ \A m, n \in DOMAIN results[k].recebs :
                recebimentos_transactions[results[k].recebs[m]].data
                    = recebimentos_transactions[results[k].recebs[n]].data

\* C26 witness: a finished run with a summed bank group and a bank entry alone
\* in its group that the second loop skipped and the fourth loop reported
C26_Witness ==
    /\ Terminou
    /\ \E k \in DOMAIN results : results[k].status = ENCONTRADA_VALOR_SOMADO
    /\ \E b \in DOMAIN banco_transactions :
        /\ \A c \in DOMAIN banco_transactions : Chave(c) = Chave(b) => c = b
        /\ \E k \in DOMAIN results :
            results[k] = Registro(SEM_CORRESPONDENCIA, "banco sem correspondencia", <<b>>, <<>>)

-----------------------------------------------------------------------------
(* The arithmetic of the summary of audit_data *)

\* the CSV rows whose key a generated row has and whose field results all match
LinhasCoincidentes ==
    {i \in DOMAIN csv_df.rows :
        /\ GeradasDaLinha(i) # {}
        /\ \A k \in 1..NumCampos : ResultadoDoCampo(i, k).is_match}

\* C29: in the summary audit_data returns, the matching and the mismatched
\* records add up to the CSV rows, the matching and the mismatched fields add
\* up to the fields checked, and matching_records counts exactly the rows
\* whose key was found and whose field results all have is_match
C29_AritmeticaDoResumo ==
    AuditDataRetornou =>
        /\ summary.total_records = Len(csv_file.rows)
        /\ summary.matching_records + summary.mismatched_records
                = summary.total_records
        /\ summary.matching_fields + summary.mismatched_fields
                = summary.total_fields_checked
        /\ summary.matching_fields
                = Cardinality({n \in DOMAIN all_results : all_results[n].is_match})
        /\ summary.matching_records = Cardinality(LinhasCoincidentes)
        /\ summary.mismatched_records
                = Cardinality((DOMAIN csv_df.rows) \ LinhasCoincidentes)

\* C29 witness: a finished audit of two rows, one counted as matching and one
\* whose key no generated row has
C29_Witness ==
    /\ AuditDataRetornou
    /\ summary.matching_records = 1
    /\ \E i \in DOMAIN csv_df.rows : GeradasDaLinha(i) = {}

-----------------------------------------------------------------------------
(* The card audit and find_matches *)

\* the generated rows that can be the partner the k-th result reports: rows of
\* the transaction's date with the reported amount in the column searched
\* and, where the result has one, the reported order number
LinhasParceiras(k) ==
    LET r == cartao_results[k]
        campo_procurado == IF r.tipo_pagamento = "CARTAO" THEN "CARTAO" ELSE "PIX"
    IN  {j \in DOMAIN cartao_args.generated_df.rows :
            LET gen_row == cartao_args.generated_df.rows[j] IN
            /\ gen_row.DATA_PGTO = r.data_cartao
            /\ campo_procurado \in cartao_args.generated_df.columns
            /\ gen_row[campo_procurado] = Num(r.valor_gerado.n)
            /\ r.os_correspondente # SemChave => gen_row.No_OS = r.os_correspondente}

\* C27: no amount of a generated row is the COINCIDENTE partner of two card
\* transactions (the original claim; the loop keeps no record of the rows it
\* has already matched)
C27_LinhaGeradaUmaVez ==
    \A k1, k2 \in DOMAIN cartao_results :
        (/\ k1 # k2
         /\ cartao_results[k1].status = COINCIDENTE
         /\ cartao_results[k2].status = COINCIDENTE
         /\ cartao_results[k1].tipo_pagamento = cartao_results[k2].tipo_pagamento) =>
            ~(/\ Cardinality(LinhasParceiras(k1)) = 1
              /\ LinhasParceiras(k1) = LinhasParceiras(k2))

\* C28: find_matches returns one AuditMatch per bank transaction, in bank
\* order, and no receivables transaction and no card transaction is the
\* partner of two of them (the original claim; each scan starts over the
\* whole list)
C28_ParceirosDistintos ==
    pc_find = "return" =>
        /\ Len(matches) = Len(find_args.banco_transactions)
        /\ \A i \in DOMAIN matches : matches[i].banco_transaction = i
        /\ \A i, j \in DOMAIN matches :
            i # j =>
                /\ matches[i].recebimentos_transaction # Nenhum =>
                        matches[i].recebimentos_transaction
                            # matches[j].recebimentos_transaction
                /\ matches[i].cartao_transaction # Nenhum =>
                        matches[i].cartao_transaction
                            # matches[j].cartao_transaction

\* C30: the loop has appended one result per card transaction it dealt with,
\* n at its end; no result is DIVERGENTE; and in audit_cartao.py the counters
\* of found and not found transactions add up to the results, to
\* total_transacoes = n at the end, valores_coincidentes is the number of
\* transactions found, and valores_divergentes is 0
C30_ContadoresParticionam ==
    /\ Len(cartao_results) = idx_cartao - 1
    /\ pc_cartao = "fim" => Len(cartao_results) = Len(cartao_args.cartao_df)
    /\ \A k \in DOMAIN cartao_results : cartao_results[k].status # DIVERGENTE
    /\ modulo = "audit_cartao" =>
        /\ summary_stats.total_transacoes = Len(cartao_args.cartao_df)
        /\ summary_stats.cartao_encontradas + summary_stats.pix_encontradas
                + summary_stats.nao_encontradas = Len(cartao_results)
        /\ pc_cartao = "fim" =>
                summary_stats.cartao_encontradas + summary_stats.pix_encontradas
                    + summary_stats.nao_encontradas = summary_stats.total_transacoes
        /\ summary_stats.valores_coincidentes
                = summary_stats.cartao_encontradas + summary_stats.pix_encontradas
        /\ summary_stats.valores_divergentes = 0
        /\ summary_stats.cartao_encontradas =
                Cardinality({k \in DOMAIN cartao_results :
                                /\ cartao_results[k].status = COINCIDENTE
                                /\ cartao_results[k].tipo_pagamento = "CARTAO"})
        /\ summary_stats.pix_encontradas =
                Cardinality({k \in DOMAIN cartao_results :
                                /\ cartao_results[k].status = COINCIDENTE
                                /\ cartao_results[k].tipo_pagamento = "PIX"})

\* C30 witness: the loop of audit_cartao.py is over for three transactions:
\* one found in the CARTAO column, one found in the PIX column, and one whose
\* amount its date's rows do not have
C30_Witness ==
    /\ pc_cartao = "fim"
    /\ modulo = "audit_cartao"
    /\ summary_stats.total_transacoes = 3
    /\ summary_stats.cartao_encontradas = 1
    /\ summary_stats.pix_encontradas = 1
    /\ \E k \in DOMAIN cartao_results :
            cartao_results[k].status = VALOR_NAO_ENCONTRADO

=============================================================================
